---- MODULE Spec2Model ----
(***************************************************************************)
(* Model of src/src/funcs.py (FuzzyQD, Bloch state expansion):             *)
(* direction classifier, segment builder, path assembler and the chunked   *)
(* folding engine bse with its per-field driver bse_cube.                  *)
(*                                                                         *)
(* Arithmetic.  The program computes in float64.  The model computes the   *)
(* k-space quantities (directions, kappa, dk) exactly, in the real field   *)
(* Q(sqrt 2, sqrt 3, sqrt 5): every reciprocal-space point is a triple of  *)
(* integers in units of 1/GridDen, and a normalised direction is an        *)
(* integer triple divided by the square root of an integer.  Rounding      *)
(* error of float64 is outside that part of the model; comparisons against *)
(* the program's tolerances are exact.  The folded weights are summed in   *)
(* an order that depends on the chunking, so their additions keep the      *)
(* rounding of floating point (Fl), with a short significand.              *)
(***************************************************************************)
EXTENDS Integers, Sequences, FiniteSets, TLC

(***************************************************************************)
(* Integer helpers                                                         *)
(***************************************************************************)
Abs(x) == IF x < 0 THEN -x ELSE x

Sgn(x) == IF x < 0 THEN -1 ELSE IF x = 0 THEN 0 ELSE 1

RECURSIVE Gcd(_, _)
Gcd(a, b) == IF b = 0 THEN Abs(a) ELSE Gcd(b, a % b)

Min2(a, b) == IF a <= b THEN a ELSE b

Max2(a, b) == IF a >= b THEN a ELSE b

\* floor(a / b) for b > 0 (TLC's \div already floors for a positive divisor)
FloorDiv(a, b) == a \div b

CeilDiv(a, b) == -((-a) \div b)

RECURSIVE SumSeq(_)
SumSeq(s) == IF s = <<>> THEN 0 ELSE s[1] + SumSeq(Tail(s))

(***************************************************************************)
(* Rationals <<n, d>>, d > 0, in lowest terms                              *)
(***************************************************************************)
RNorm(n, d) ==
    LET g == Gcd(n, d)
        s == IF d < 0 THEN -1 ELSE 1
    IN  <<(s * n) \div g, (s * d) \div g>>

RInt(n) == <<n, 1>>

RAdd(a, b) == RNorm(a[1] * b[2] + b[1] * a[2], a[2] * b[2])

RNeg(a) == <<-a[1], a[2]>>

RSub(a, b) == RAdd(a, RNeg(b))

RMul(a, b) == RNorm(a[1] * b[1], a[2] * b[2])

\* a / b, b # 0
RDiv(a, b) == RNorm(a[1] * b[2], a[2] * b[1])

RSign(a) == Sgn(a[1])

RLess(a, b) == a[1] * b[2] < b[1] * a[2]

RFloor(a) == FloorDiv(a[1], a[2])

(***************************************************************************)
(* Exact reals: the tower Q < Q(sqrt 2) < Q(sqrt 2, sqrt 3) < ...          *)
(* A level-0 number is a rational; a level-k number is <<u, v>> with u, v  *)
(* of level k-1 and stands for u + sqrt(Radicands[k]) * v.                 *)
(***************************************************************************)
Radicands == <<2, 3, 5>>

Top == Len(Radicands)

RECURSIVE NZero(_)
NZero(k) == IF k = 0 THEN RInt(0) ELSE <<NZero(k - 1), NZero(k - 1)>>

RECURSIVE NEmbed(_, _)
NEmbed(q, k) == IF k = 0 THEN q ELSE <<NEmbed(q, k - 1), NZero(k - 1)>>

RECURSIVE NAdd(_, _, _)
NAdd(a, b, k) ==
    IF k = 0 THEN RAdd(a, b)
    ELSE <<NAdd(a[1], b[1], k - 1), NAdd(a[2], b[2], k - 1)>>

RECURSIVE NScale(_, _, _)
NScale(q, a, k) ==
    IF k = 0 THEN RMul(q, a)
    ELSE <<NScale(q, a[1], k - 1), NScale(q, a[2], k - 1)>>

RECURSIVE NMul(_, _, _)
NMul(a, b, k) ==
    IF k = 0 THEN RMul(a, b)
    ELSE <<NAdd(NMul(a[1], b[1], k - 1),
                NScale(RInt(Radicands[k]), NMul(a[2], b[2], k - 1), k - 1),
                k - 1),
           NAdd(NMul(a[1], b[2], k - 1), NMul(a[2], b[1], k - 1), k - 1)>>

\* sign of u + sqrt(r) v: when u and v disagree in sign, compare u^2 with r v^2
RECURSIVE NSign(_, _)
NSign(a, k) ==
    IF k = 0 THEN RSign(a)
    ELSE LET su == NSign(a[1], k - 1)
             sv == NSign(a[2], k - 1)
         IN  IF sv = 0 THEN su
             ELSE IF su = 0 \/ su = sv THEN sv
             ELSE su * NSign(NAdd(NMul(a[1], a[1], k - 1),
                                  NScale(RInt(-Radicands[k]),
                                         NMul(a[2], a[2], k - 1), k - 1),
                                  k - 1),
                             k - 1)

\* the generator sqrt(Radicands[j]) as a level-k number, j <= k
RECURSIVE NRoot(_, _)
NRoot(j, k) ==
    IF k = j THEN <<NZero(k - 1), NEmbed(RInt(1), k - 1)>>
    ELSE <<NRoot(j, k - 1), NZero(k - 1)>>

Zero == NZero(Top)

Rat(q) == NEmbed(q, Top)

Add(a, b) == NAdd(a, b, Top)

Scale(q, a) == NScale(q, a, Top)

Neg(a) == Scale(RInt(-1), a)

Sub(a, b) == Add(a, Neg(b))

Mul(a, b) == NMul(a, b, Top)

Sign(a) == NSign(a, Top)

Less(a, b) == Sign(Sub(b, a)) > 0

\* the largest s with s^2 dividing n (n >= 1)
SquarePart(n) ==
    CHOOSE s \in 1..n : /\ n % (s * s) = 0
                        /\ \A t \in (s + 1)..n : n % (t * t) # 0

\* sqrt(n) for an integer n >= 1 whose square-free part is a product of radicands
\* (the CHOOSE over the empty set makes any other n an evaluation error)
RECURSIVE RootProduct(_, _)
RootProduct(f, j) ==
    IF j = 0 THEN (IF f = 1 THEN Rat(RInt(1)) ELSE CHOOSE x \in {} : TRUE)
    ELSE IF f % Radicands[j] = 0
         THEN Mul(NRoot(j, Top), RootProduct(f \div Radicands[j], j - 1))
         ELSE RootProduct(f, j - 1)

Sqrt(n) ==
    LET s == SquarePart(n)
    IN  Scale(RInt(s), RootProduct(n \div (s * s), Top))

(***************************************************************************)
(* Vectors.  A point of reciprocal space is a triple of integers in units  *)
(* of 1/GridDen.  A scaled vector [v, n2] stands for v / sqrt(n2).         *)
(***************************************************************************)
GridDen == 4

Dot3(a, b) == a[1] * b[1] + a[2] * b[2] + a[3] * b[3]

Sub3(a, b) == <<a[1] - b[1], a[2] - b[2], a[3] - b[3]>>

Axes == 1..3

(***************************************************************************)
(* Data structures: e_k_dict                                               *)
(* scale = 1 / sqrt(scale_rad); a positive direction is v / sqrt(scale_rad)*)
(* origin_bun is in units of 1/2.                                          *)
(***************************************************************************)
e_k_dict ==
    <<[scale_rad |-> 1, N_bun |-> 1,
       positive_dir |-> << <<1, 0, 0>>, <<0, 1, 0>>, <<0, 0, 1>> >>,
       origin_bun |-> << <<0, 0, 0>>, <<1, 1, 1>> >>],
      [scale_rad |-> 2, N_bun |-> 1,
       positive_dir |-> << <<1, 1, 0>>, <<1, -1, 0>>, <<0, 1, 1>>,
                           <<0, 1, -1>>, <<1, 0, 1>>, <<-1, 0, 1>> >>,
       origin_bun |-> << <<0, 0, 0>>, <<1, 1, 1>> >>],
      [scale_rad |-> 3, N_bun |-> 1,
       positive_dir |-> << <<1, 1, 1>>, <<1, 1, -1>>, <<1, -1, 1>>,
                           <<1, -1, -1>> >>,
       origin_bun |-> << <<0, 0, 0>>, <<1, 1, 1>> >>] >>

(***************************************************************************)
(* closest: int(np.round(x)), round half to even                           *)
(***************************************************************************)
MaxRound == 12

closest(x) ==
    CHOOSE n \in (-MaxRound)..MaxRound :
        LET lo == Sign(Sub(x, Rat(RNorm(2 * n - 1, 2))))
            hi == Sign(Sub(Rat(RNorm(2 * n + 1, 2)), x))
        IN  \/ lo > 0 /\ hi > 0
            \/ lo = 0 /\ n % 2 = 0
            \/ hi = 0 /\ n % 2 = 0

(***************************************************************************)
(* set_index on e_k = e.v / sqrt(e.n2)                                     *)
(*   abs_e_k_non_zero = the |v_i| / sqrt(n2) with v_i # 0                  *)
(*   index = e_k / min_non_zero: the common factor 1/sqrt(n2) divides out  *)
(*   label = int(sum(|index|) - 1): int() truncates, the sum is >= 1      *)
(* A zero vector has no non-zero component: np.min of an empty array       *)
(* raises ValueError.                                                      *)
(***************************************************************************)
MinNonZero(v) ==
    LET nz == {Abs(v[i]) : i \in Axes} \ {0}
    IN  CHOOSE m \in nz : \A x \in nz : m <= x

SumAbsIndex(index) ==
    RAdd(RAdd(<<Abs(index[1][1]), index[1][2]>>,
              <<Abs(index[2][1]), index[2][2]>>),
         <<Abs(index[3][1]), index[3][2]>>)

set_index_unsigned(e) ==
    IF e.v = <<0, 0, 0>> THEN [status |-> "ValueError"]
    ELSE LET min_non_zero == MinNonZero(e.v)
             index == [i \in Axes |-> RDiv(RInt(Abs(e.v[i])), RInt(min_non_zero))]
             label == RFloor(RSub(SumAbsIndex(index), RInt(1)))
         IN  [status |-> "ok", index |-> index, label |-> label]

set_index(e) ==
    IF e.v = <<0, 0, 0>> THEN [status |-> "ValueError"]
    ELSE LET min_non_zero == MinNonZero(e.v)
             index == [i \in Axes |-> RDiv(RInt(e.v[i]), RInt(min_non_zero))]
             label == RFloor(RSub(SumAbsIndex(index), RInt(1)))
         IN  [status |-> "ok", index |-> index, label |-> label]

(***************************************************************************)
(* k_path_segment                                                          *)
(***************************************************************************)
\* the tolerance 0.99999 of the sign scan
TolNum == 99999

TolDen == 100000

\* abs(c / sqrt(P)) > TolNum / TolDen, for integers c and P >= 1.
\* Squared and rearranged so that no product leaves 32 bits:
\*   c^2 TolDen^2 > TolNum^2 P  <=>  (P - c^2) TolDen^2 < (TolDen^2 - TolNum^2) P
\* and A * B < C <=> A < ceil(C / B) for integers A, C and B > 0.
AboveTol(c, P) ==
    (P - c * c) * TolDen
        < CeilDiv((TolDen - TolNum) * (TolDen + TolNum) * P, TolDen)

RECURSIVE SignScanUnsigned(_, _, _, _)
SignScanUnsigned(e, entry, v, sign) ==
    IF v > Len(entry.positive_dir) THEN sign
    ELSE LET c == Dot3(e.v, entry.positive_dir[v])
         IN  SignScanUnsigned(e, entry, v + 1,
                              IF AboveTol(c, e.n2 * entry.scale_rad) THEN Abs(Sgn(c)) ELSE sign)

\* the loop over positive_dir: every vector that matches overwrites sign;
\* round(dot_product) of a dot product with 0.99999 < |dot| <= 1 is its sign
RECURSIVE SignScan(_, _, _, _)
SignScan(e, entry, v, sign) ==
    IF v > Len(entry.positive_dir) THEN sign
    ELSE LET c == Dot3(e.v, entry.positive_dir[v])
         IN  SignScan(e, entry, v + 1,
                      IF AboveTol(c, e.n2 * entry.scale_rad) THEN Sgn(c) ELSE sign)

\* np.linspace(start, stop, num) with the default endpoint=True
linspace_open(start, stop, num) ==
    [i \in 1..num |-> Add(start, Scale(RNorm(i - 1, num), Sub(stop, start)))]

linspace(start, stop, num) ==
    IF num = 0 THEN <<>>
    ELSE IF num = 1 THEN <<start>>
    ELSE [i \in 1..num |->
            IF i = num THEN stop
            ELSE Add(start, Scale(RNorm(i - 1, num - 1), Sub(stop, start)))]

\* k1, k2: points (integer triples over GridDen); dk_set: a rational > 0.
\*   e_k = (k2 - k1) / norm: the scaled vector [diff, diff . diff]
\*   (0/0 = nan for k1 = k2, and int(nan) raises ValueError in set_index)
\*   e_k_dict[label] raises IndexError for a label above 2
\*   dk_real = (kappa_2 - kappa_1) / N_k is inf for N_k = 0 (float64 division)
\* An angle is the record [sin, cos2, den2] of integers with sine
\* sin / sqrt(den2) and cosine sqrt(cos2) / sqrt(den2) (the angles are
\* arcsines, so their cosines are not negative).
\* k_path_segment: angle_1 = -arcsin(sign * e_k[1] / sqrt(e_k[0]^2 + e_k[1]^2)),
\* angle_2 = -arcsin(sign * e_k[2]); both 0 for label 0
rot_angle_unset(seg) ==
    << [sin |-> 0, cos2 |-> 1, den2 |-> 1], [sin |-> 0, cos2 |-> 1, den2 |-> 1] >>

rot_angle(seg) ==
    IF seg.dir = 0
    THEN << [sin |-> 0, cos2 |-> 1, den2 |-> 1], [sin |-> 0, cos2 |-> 1, den2 |-> 1] >>
    ELSE LET v == seg.dir_k.v
             m == v[1] * v[1] + v[2] * v[2]
         IN  << [sin |-> -seg.r_par_sign * v[2], cos2 |-> v[1] * v[1], den2 |-> m],
                [sin |-> -seg.r_par_sign * v[3], cos2 |-> m, den2 |-> seg.dir_k.n2] >>

\* A signed square root sg * sqrt(sq), sq a rational: the form of every
\* sine, cosine and product of them met in the basis
SRoot(sg, n, d) ==
    IF sg = 0 \/ n = 0 THEN [sg |-> 0, sq |-> RInt(0)]
    ELSE [sg |-> sg, sq |-> RNorm(n, d)]

SMul(a, b) == SRoot(a.sg * b.sg, a.sq[1] * b.sq[1], a.sq[2] * b.sq[2])

SNeg(a) == [a EXCEPT !.sg = -a.sg]

SinOf(angle) == SRoot(Sgn(angle.sin), angle.sin * angle.sin, angle.den2)

CosOf(angle) == SRoot(1, angle.cos2, angle.den2)

\* np.eye(3) for label 0, else the rows built from the two angles
k_perp_basis(label, angle) ==
    LET one == SRoot(1, 1, 1)
        zero == SRoot(0, 0, 1)
    IN  IF label = 0
        THEN << <<one, zero, zero>>, <<zero, one, zero>>, <<zero, zero, one>> >>
        ELSE << << SMul(CosOf(angle[2]), CosOf(angle[1])),
                   SNeg(SMul(CosOf(angle[2]), SinOf(angle[1]))),
                   SNeg(SinOf(angle[2])) >>,
                << SinOf(angle[1]), CosOf(angle[1]), zero >>,
                << SMul(SinOf(angle[2]), CosOf(angle[1])),
                   SNeg(SMul(SinOf(angle[2]), SinOf(angle[1]))),
                   CosOf(angle[2]) >> >>

k_path_segment(k1, k2, dk_set) ==
    LET diff == Sub3(k2, k1)
        e_k == [v |-> diff, n2 |-> Dot3(diff, diff)]
        si == set_index(e_k)
    IN  IF si.status # "ok" THEN [status |-> "ValueError"]
        ELSE IF si.label > 2 THEN [status |-> "IndexError"]
        ELSE
        LET label == si.label
            entry == e_k_dict[label + 1]
            sign == SignScan(e_k, entry, 1, 1)
            root == Sqrt(e_k.n2)
            kappa_1 == Scale(RNorm(Dot3(k1, diff), GridDen * e_k.n2), root)
            kappa_2 == Scale(RNorm(Dot3(k2, diff), GridDen * e_k.n2), root)
            k_0 == [i \in Axes |->
                      RSub(RNorm(k1[i], GridDen),
                           RMul(RNorm(Dot3(k1, diff), GridDen * e_k.n2),
                                RInt(diff[i])))]
            N_k == closest(Scale(RDiv(RInt(1), dk_set), Sub(kappa_2, kappa_1)))
            dk_real == IF N_k = 0 THEN "inf"
                       ELSE Scale(RNorm(1, N_k), Sub(kappa_2, kappa_1))
            kappa == IF N_k = 0 THEN <<>>
                     ELSE linspace(kappa_1, Sub(kappa_2, dk_real), N_k)
            angle == rot_angle([dir |-> label, dir_k |-> e_k, r_par_sign |-> sign])
        IN  [status |-> "ok",
             dir |-> label,
             scale_rad |-> entry.scale_rad,
             dir_k |-> e_k,
             indices |-> si.index,
             pos_k |-> k_0,
             kappa_12 |-> <<kappa_1, kappa_2>>,
             r_par_sign |-> sign,
             dk |-> dk_real,
             rot_angle |-> angle,
             k_perp_basis |-> k_perp_basis(label, angle),
             N_bun |-> entry.N_bun,
             origin_bun |-> entry.origin_bun,
             kappa |-> kappa,
             phi_folded |-> [i \in 1..N_k |-> 0]]

(***************************************************************************)
(* organize_output_path(k_path, k_path_points)                             *)
(* kappa_s[0] of a segment without samples raises IndexError.              *)
(***************************************************************************)
\* kappa_end = kappa_s[-1] + dkappa_s
SegmentEndNoStep(kappa_s, dkappa_s) == kappa_s[Len(kappa_s)]

SegmentEnd(kappa_s, dkappa_s) == Add(kappa_s[Len(kappa_s)], dkappa_s)

RECURSIVE PathLoop(_, _, _, _, _)
PathLoop(path, N_segment, s, kappa, kappa_end) ==
    IF s > N_segment
    THEN [status |-> "ok", kappa |-> Tail(Append(kappa, kappa_end))]
    ELSE LET segment == path[s]
             dkappa_s == segment.dk
         IN  IF Len(segment.kappa) = 0 THEN [status |-> "IndexError"]
             ELSE LET shift == Sub(segment.kappa[1], kappa_end)
                      kappa_s == [i \in 1..Len(segment.kappa) |->
                                    Sub(segment.kappa[i], shift)]
                  IN  PathLoop(path, N_segment, s + 1, kappa \o kappa_s,
                               SegmentEnd(kappa_s, dkappa_s))

organize_output_path(path, points) ==
    PathLoop(path, Len(points) - 1, 1, <<Zero>>, Zero)

(***************************************************************************)
(* organize_output_phi(k_path)                                             *)
(* phi_folded[0] of an empty list raises IndexError.  The samples are      *)
(* copied into a python list and np.array(list) allocates the returned     *)
(* array: base tells whose storage the returned array uses, "none" for an  *)
(* array that owns its data.                                               *)
(***************************************************************************)
RECURSIVE ConcatPhi(_, _)
ConcatPhi(path, s) ==
    IF s > Len(path) THEN <<>>
    ELSE path[s].phi_folded \o ConcatPhi(path, s + 1)

organize_output_phi_open(path) ==
    LET phi_folded == ConcatPhi(path, 1)
    IN  IF Len(phi_folded) = 0 THEN [status |-> "IndexError"]
        ELSE [status |-> "ok", phi |-> phi_folded, base |-> "none"]

organize_output_phi_view(path) ==
    LET phi_folded == ConcatPhi(path, 1)
    IN  IF Len(phi_folded) = 0 THEN [status |-> "IndexError"]
        ELSE [status |-> "ok", phi |-> Append(phi_folded, phi_folded[1]),
              base |-> "k_path"]

organize_output_phi(path) ==
    LET phi_folded == ConcatPhi(path, 1)
    IN  IF Len(phi_folded) = 0 THEN [status |-> "IndexError"]
        ELSE [status |-> "ok", phi |-> Append(phi_folded, phi_folded[1]),
              base |-> "none"]

\* the collected rows as they read after the segments' phi_folded arrays
\* have been written: a row that is a view of them follows the write
RowsSeen(rows, views, path) ==
    [j \in 1..Len(rows) |->
        IF j \in views THEN organize_output_phi(path).phi ELSE rows[j]]

(***************************************************************************)
(* rotate_psi / rotate_psi_111 on the shape of the field.  The field is    *)
(* represented by its shape (N_x, N_y, N_z); the ramps are integer          *)
(* sequences.                                                              *)
(***************************************************************************)
\* n <= |cos| * iy + |sin| * ix + 1/2, decided in integers:
\* (2n - 1) sqrt(den2) - 2 |sin| ix <= 2 iy sqrt(cos2)
ExtentAtLeast(n, iy, ix, angle) ==
    LET P == 2 * n - 1
        Q == 2 * Abs(angle.sin) * ix
        T == 2 * iy
        U == P * P * angle.den2 + Q * Q - T * T * angle.cos2
    IN  \/ P <= 0
        \/ P * P * angle.den2 <= Q * Q
        \/ U <= 0
        \/ U * U <= 4 * P * P * Q * Q * angle.den2

\* int(|cos| * iy + |sin| * ix + 0.5)
Extent(iy, ix, angle) ==
    CHOOSE n \in 0..(iy + ix) :
        /\ ExtentAtLeast(n, iy, ix, angle)
        /\ ~ExtentAtLeast(n + 1, iy, ix, angle)

\* scipy.ndimage.rotate(psi, angle, axes=(a, b), reshape=True): the extents
\* along a and b become int(ptp of the rotated corners + 0.5)
rotate(shape, a, b, angle) ==
    [shape EXCEPT ![a] = Extent(shape[a], shape[b], angle),
                  ![b] = Extent(shape[b], shape[a], angle)]

\* np.linspace(0, N - 1, N) * sign
Ramp(N, sign) == [i \in 1..N |-> (i - 1) * sign]

\* one call of rotate(..., angle=sign * angle, axes=axes, reshape=True)
Rotation(axes, sign, angle) == [axes |-> axes, angle |-> [angle EXCEPT !.sin = sign * @]]

\* rotate_psi: the returned field is the input with the listed rotations
\* applied (none: a copy of the input) and has the shape they give it.
\* rotate_psi: for a 100 segment the three ramps are one array of length
\* psi.shape[0] (r_par = r_perp_0 = r_perp_1 = np.linspace(...)), so the
\* in-place r_par *= sign acts on all three; for a 110 segment the ramps
\* are rebuilt from psi_rot.shape and only r_par takes the sign
rotate_psi(psi_shape, seg) ==
    LET v == seg.dir_k.v
        N == psi_shape[1]
        angle == seg.rot_angle
    IN  IF seg.dir = 0
        THEN [shape |-> psi_shape,
              rotations |-> <<>>,
              r_par |-> Ramp(N, seg.r_par_sign),
              r_perp_0 |-> Ramp(N, seg.r_par_sign),
              r_perp_1 |-> Ramp(N, seg.r_par_sign),
              \* a 100 direction has one component of magnitude 1, the others 0
              axis_id |-> IF v[2] # 0 THEN <<1, 0, 2>>
                          ELSE IF v[3] # 0 THEN <<2, 1, 0>>
                          ELSE <<0, 1, 2>>]
        ELSE IF seg.dir = 1
        THEN LET psi_rot ==
                     IF v[3] = 0 THEN rotate(psi_shape, 1, 2, angle[1])
                     ELSE IF v[2] = 0 THEN rotate(psi_shape, 1, 3, angle[2])
                     ELSE IF v[1] = 0
                          THEN rotate(rotate(psi_shape, 1, 2, angle[1]), 1, 3, angle[2])
                          ELSE psi_shape
                 rotations ==
                     IF v[3] = 0 THEN <<Rotation(<<0, 1>>, 1, angle[1])>>
                     ELSE IF v[2] = 0 THEN <<Rotation(<<0, 2>>, 1, angle[2])>>
                     ELSE IF v[1] = 0
                          THEN <<Rotation(<<0, 1>>, 1, angle[1]),
                                 Rotation(<<0, 2>>, 1, angle[2])>>
                          ELSE <<>>
             IN  [shape |-> psi_rot,
                  rotations |-> rotations,
                  r_par |-> Ramp(psi_rot[1], seg.r_par_sign),
                  r_perp_0 |-> Ramp(psi_rot[2], 1),
                  r_perp_1 |-> Ramp(psi_rot[3], 1),
                  axis_id |-> <<0, 1, 2>>]
        ELSE [shape |-> psi_shape,
              rotations |-> <<>>,
              r_par |-> Ramp(N, seg.r_par_sign),
              r_perp_0 |-> Ramp(N, seg.r_par_sign),
              r_perp_1 |-> Ramp(N, seg.r_par_sign),
              axis_id |-> <<0, 1, 2>>]

rotate_psi_111(psi_shape, seg) ==
    LET angle == seg.rot_angle
        psi_rot == rotate(rotate(psi_shape, 1, 2, angle[1]), 1, 3, angle[2])
        axis_id == <<0, 1, 2>>
    IN  [shape |-> psi_rot,
         rotations |-> <<Rotation(<<0, 1>>, seg.r_par_sign, angle[1]),
                         Rotation(<<0, 2>>, seg.r_par_sign, angle[2])>>,
         r_par |-> Ramp(psi_rot[axis_id[1] + 1], seg.r_par_sign),
         r_perp_0 |-> Ramp(psi_rot[axis_id[2] + 1], 1),
         r_perp_1 |-> Ramp(psi_rot[axis_id[3] + 1], 1),
         axis_id |-> axis_id]

\* np.tensordot of process_bundle_chunk_*: factor_perp is contracted with
\* the axes axis_id[1], axis_id[2] of psi_rot and factor_par with the
\* remaining axis; an extent that differs from the ramp's length raises
Conforming(rot) ==
    /\ Len(rot.r_perp_0) = rot.shape[rot.axis_id[2] + 1]
    /\ Len(rot.r_perp_1) = rot.shape[rot.axis_id[3] + 1]
    /\ Len(rot.r_par) = rot.shape[rot.axis_id[1] + 1]

(***************************************************************************)
(* The bundles: get_masks, combinations_110_bis, combinations_111 and      *)
(* set_bundle_100 / _110 / _111.  A bundle is kept as the lattice rows it  *)
(* is built on and the zones of its kappa columns (column i of kappa is    *)
(* the segment's samples shifted by zone i); the in-plane wavenumbers of   *)
(* the 110 and 111 bundles, projections of the rows on the basis, are not  *)
(* expanded.                                                               *)
(***************************************************************************)
get_masks_default(direction, dir_index) ==
    << <<SRoot(0, 0, 1), SRoot(1, 1, 1), SRoot(0, 0, 1)>>,
       <<SRoot(0, 0, 1), SRoot(0, 0, 1), SRoot(1, 1, 1)>> >>

get_masks(direction, dir_index) ==
    LET one == SRoot(1, 1, 1)
        zero == SRoot(0, 0, 1)
        r2 == SRoot(1, 1, 2)
        IsOne(i) == Abs(dir_index[i][1]) = dir_index[i][2]
        IsZero(i) == dir_index[i][1] = 0
        Cancel(i, j) == RAdd(dir_index[i], dir_index[j]) = RInt(0)
    IN  IF direction = 0
        THEN IF IsOne(2) THEN << <<one, zero, zero>>, <<zero, zero, one>> >>
             ELSE IF IsOne(3) THEN << <<zero, one, zero>>, <<one, zero, zero>> >>
             ELSE << <<zero, one, zero>>, <<zero, zero, one>> >>
        ELSE IF direction = 1
        THEN IF IsZero(3) /\ Cancel(1, 2)
             THEN << <<r2, r2, zero>>, <<zero, zero, one>> >>
             ELSE IF IsZero(2)
             THEN << IF Cancel(1, 3) THEN <<r2, zero, r2>> ELSE <<SNeg(r2), zero, r2>>,
                     <<zero, one, zero>> >>
             ELSE IF IsZero(1)
             THEN << IF Cancel(2, 3) THEN <<zero, r2, SNeg(r2)>> ELSE <<zero, SNeg(r2), r2>>,
                     <<one, zero, zero>> >>
             ELSE << <<SNeg(r2), r2, zero>>, <<zero, zero, one>> >>
        ELSE IF direction = 2
        THEN << <<SNeg(r2), r2, zero>>,
                <<SRoot(-1, 1, 6), SRoot(-1, 1, 6), SRoot(1, 4, 6)>> >>
        ELSE << <<zero, one, zero>>, <<zero, zero, one>> >>

\* the axis a unit mask selects: np.dot(mask, k) = k[axis]
MaskDot(mask, k) ==
    LET i == CHOOSE j \in Axes : mask[j].sg # 0
    IN  k[i]

\* origin_bun[b] as rationals
Origin(seg, b) == [i \in Axes |-> RNorm(seg.origin_bun[b + 1][i], 2)]

\* sign * k_segment['indices']
SignedIndex(seg) == [i \in Axes |-> RMul(RInt(seg.r_par_sign), seg.indices[i])]

\* python round() of a rational
round(q) == closest(Rat(q))

\* set_bundle_100: 2N + 1 integer zones for bundle 0, 2N half-integer zones
\* otherwise; np.linspace with a negative count raises ValueError
set_bundle_100(b, seg, N) ==
    LET masks == get_masks(seg.dir, seg.indices)
        count == IF b = 0 THEN 2 * N + 1 ELSE 2 * N
        shift(m) == RAdd(MaskDot(masks[m], Origin(seg, b)), MaskDot(masks[m], seg.pos_k))
    IN  IF count < 0 THEN [status |-> "ValueError"]
        ELSE [status |-> "ok",
              dir_index |-> seg.indices,
              k_0_0 |-> [i \in 1..count |-> RAdd(RInt(-N + i - 1), shift(1))],
              k_0_1 |-> [i \in 1..count |-> RAdd(RInt(-N + i - 1), shift(2))],
              rows |-> <<>>,
              n_kappa |-> count,
              zones |-> [i \in 1..count |->
                           IF b = 0 THEN RInt(-N + i - 1)
                           ELSE RAdd(RInt(-N + i - 1), RNorm(1, 2))]]

\* combinations_110_bis: the rows of BZ_2D, each repeated over n_2, with n_2
\* inserted as column pos_z, column pos_y scaled by the signed index, the
\* bundle origin added
combinations_110_bis(seg, l, b, Nyq) ==
    LET index == SignedIndex(seg)
        n_2 == [j \in 1..(2 * Nyq + 1 - b) |-> -Nyq + j - 1]
        BZ_2D == IF l = 0 THEN << <<0, 0>> >> ELSE << <<l, 0>>, <<0, l>> >>
        pos == IF index[2][1] = 0 THEN <<2, 1>>
               ELSE IF index[1][1] = 0 THEN <<2, 0>>
               ELSE <<1, 2>>
        pos_y == pos[1]
        pos_z == pos[2]
        stacked(r, j) ==
            IF pos_z = 0 THEN <<n_2[j], BZ_2D[r][1], BZ_2D[r][2]>>
            ELSE IF pos_z = 1 THEN <<BZ_2D[r][1], n_2[j], BZ_2D[r][2]>>
            ELSE <<BZ_2D[r][1], BZ_2D[r][2], n_2[j]>>
        origin == Origin(seg, b)
        row(r, j) ==
            [i \in Axes |->
                RAdd(IF i = pos_y + 1 THEN RMul(RInt(stacked(r, j)[i]), index[i])
                     ELSE RInt(stacked(r, j)[i]),
                     origin[i])]
    IN  [n \in 1..(Len(BZ_2D) * Len(n_2)) |->
            row(((n - 1) \div Len(n_2)) + 1, ((n - 1) % Len(n_2)) + 1)]

set_bundle_110_wide(BZ, l, b, seg, N) ==
    LET n_min == l - 2 * N
        n_max == 2 * (N - b) - l + 2
        n_kappa == round(RAdd(RNorm(n_max - n_min, 2), RInt(1)))
    IN  [status |-> "ok",
         dir_index |-> seg.indices,
         rows |-> BZ,
         n_kappa |-> n_kappa,
         zones |-> [i \in 1..n_kappa |-> RAdd(RNorm(n_min, 2), RInt(i - 1))]]

set_bundle_110(BZ, l, b, seg, N) ==
    LET n_min == l - 2 * N
        n_max == 2 * (N - b) - l
        n_kappa == round(RAdd(RNorm(n_max - n_min, 2), RInt(1)))
    IN  [status |-> "ok",
         dir_index |-> seg.indices,
         rows |-> BZ,
         n_kappa |-> n_kappa,
         zones |-> [i \in 1..n_kappa |-> RAdd(RNorm(n_min, 2), RInt(i - 1))]]

combinations_111_unsigned(width, length, bundle, seg) ==
    LET cell == <<width, length, 0>>
        all_cells == {<<cell[p[1]], cell[p[2]], cell[p[3]]>> :
                        p \in {q \in Axes \X Axes \X Axes :
                                 q[1] # q[2] /\ q[1] # q[3] /\ q[2] # q[3]}}
        origin == Origin(seg, bundle)
    IN  {[i \in Axes |-> RAdd(RInt(c[i]), origin[i])] : c \in all_cells}

\* combinations_111: set(permutations([width, length, 0])), columns negated
\* by the signed index, the bundle origin added; the rows come in the set's
\* iteration order, so they are kept as a set
combinations_111(width, length, bundle, seg) ==
    LET index == SignedIndex(seg)
        cell == <<width, length, 0>>
        all_cells == {<<cell[p[1]], cell[p[2]], cell[p[3]]>> :
                        p \in {q \in Axes \X Axes \X Axes :
                                 q[1] # q[2] /\ q[1] # q[3] /\ q[2] # q[3]}}
        sum == RAdd(RAdd(index[1], index[2]), index[3])
        pos(i) == RLess(RNorm(99999, 100000), index[i])
        flip == IF RLess(sum, RNorm(100001, 100000))
                THEN IF pos(1) /\ pos(2) THEN {3}
                     ELSE IF pos(1) /\ pos(3) THEN {2}
                     ELSE IF RLess(sum, RNorm(-99999, 100000)) THEN {2, 3}
                     ELSE {}
                ELSE {}
        origin == Origin(seg, bundle)
    IN  {[i \in Axes |-> RAdd(RInt(IF i \in flip THEN -c[i] ELSE c[i]), origin[i])] :
            c \in all_cells}

set_bundle_111_unit_step(BZ, w, l, b, seg, N) ==
    LET n_min == w + l - 3 * N
        n_max == 3 * (N - b) + l - 2 * w
        n_kappa == n_max - n_min + 1
    IN  [status |-> "ok",
         dir_index |-> seg.indices,
         rows |-> BZ,
         n_kappa |-> n_kappa,
         zones |-> [i \in 1..n_kappa |-> RInt(n_min + (i - 1))]]

set_bundle_111(BZ, w, l, b, seg, N) ==
    LET n_min == w + l - 3 * N
        n_max == 3 * (N - b) + l - 2 * w
        n_kappa == round(RAdd(RNorm(n_max - n_min, 3), RInt(1)))
    IN  [status |-> "ok",
         dir_index |-> seg.indices,
         rows |-> BZ,
         n_kappa |-> n_kappa,
         zones |-> [i \in 1..n_kappa |-> RInt(n_min + 3 * (i - 1))]]

(***************************************************************************)
(* summary_k_path(k_path, segments, a_dx)                                  *)
(*   pos_dir[d]: the positions of the family-d segments, in path order     *)
(*   Nyquist = math.floor(0.5 * (a_dx / sqrt(3) - 2))                      *)
(***************************************************************************)
floor(x) ==
    CHOOSE n \in (-MaxRound)..MaxRound :
        /\ Sign(Sub(x, Rat(RInt(n)))) >= 0
        /\ Sign(Sub(Rat(RInt(n + 1)), x)) > 0

\* the family-d positions from s on
PositionsOfReversed(path, d, s) ==
    LET S == {p \in s..Len(path) : path[p].dir = d}
    IN  [i \in 1..Cardinality(S) |->
            CHOOSE p \in S : Cardinality({q \in S : q > p}) = i - 1]

RECURSIVE PositionsOf(_, _, _)
PositionsOf(path, d, s) ==
    IF s > Len(path) THEN <<>>
    ELSE (IF path[s].dir = d THEN <<s>> ELSE <<>>) \o PositionsOf(path, d, s + 1)

\* Nyq = math.floor(0.5 * ((a_dx / np.sqrt(3)) - 2))
Nyquist(a_dx) ==
    floor(Scale(RNorm(1, 2),
                Sub(Scale(RDiv(a_dx, RInt(3)), Sqrt(3)), Rat(RInt(2)))))

summary_k_path(path, a_dx) ==
    LET pos_dir == [d \in 0..2 |-> PositionsOf(path, d, 1)]
    IN  [n_dir |-> [d \in 0..2 |-> Len(pos_dir[d])],
         pos_dir |-> pos_dir,
         Nyquist |-> Nyquist(a_dx)]

(***************************************************************************)
(* The folding engine: work lists, chunks, chunk results                   *)
(***************************************************************************)
RECURSIVE Flatten(_)
Flatten(ss) == IF Len(ss) = 0 THEN <<>> ELSE Head(ss) \o Flatten(Tail(ss))

\* range(bundles); [(b, l) ...]; [(b, w, l) ...] of bse, by family
tensordot_operations(seg, Nyq) ==
    LET bundles == seg.N_bun
    IN  IF seg.dir = 0 THEN [bi \in 1..bundles |-> <<bi - 1>>]
        ELSE IF seg.dir = 1
        THEN Flatten([bi \in 1..bundles |->
                        [li \in 1..(2 * Nyq + 1 - (bi - 1)) |-> <<bi - 1, li - 1>>]])
        ELSE Flatten([bi \in 1..bundles |->
                        Flatten([wi \in 1..(2 * Nyq + 1 - (bi - 1)) |->
                                   [li \in 1..wi |-> <<bi - 1, wi - 1, li - 1>>]])])

\* iterable[i:i + chunk_size] for i in range(0, len(iterable), chunk_size)
chunked_iterable_drop_tail(iterable, chunk_size) ==
    [j \in 1..(Len(iterable) \div chunk_size) |->
        SubSeq(iterable, (j - 1) * chunk_size + 1, j * chunk_size)]

chunked_iterable_singletons(iterable, chunk_size) ==
    [j \in 1..Len(iterable) |-> SubSeq(iterable, j, j)]

chunked_iterable_overlap(iterable, chunk_size) ==
    [j \in 1..CeilDiv(Len(iterable), chunk_size) |->
        SubSeq(iterable, (j - 1) * chunk_size + 1,
               Min2(j * chunk_size + 1, Len(iterable)))]

chunked_iterable(iterable, chunk_size) ==
    [j \in 1..CeilDiv(Len(iterable), chunk_size) |->
        SubSeq(iterable, (j - 1) * chunk_size + 1,
               Min2(j * chunk_size, Len(iterable)))]

\* Floating-point addition.  The weights are float64 arrays and every +=
\* rounds its result to the nearest representable value, ties to even.  The
\* model keeps the rounding and shortens the significand to MantBits bits, so
\* that sums of a few small weights already round: values are non-negative
\* integers, exact below 2^MantBits, then spaced by 2, 4, ...
MantBits == 3

RECURSIVE Pow2(_)
Pow2(n) == IF n = 0 THEN 1 ELSE 2 * Pow2(n - 1)

\* the distance between neighbouring representable values around x >= 0
RECURSIVE Spacing(_)
Spacing(x) == IF x < Pow2(MantBits) THEN 1 ELSE 2 * Spacing(x \div 2)

\* x rounded to the nearest representable value, ties to the even significand
Fl(x) ==
    LET q == Spacing(x)
        lo == (x \div q) * q
        rem == x - lo
    IN  IF 2 * rem < q THEN lo
        ELSE IF 2 * rem > q THEN lo + q
        ELSE IF (lo \div q) % 2 = 0 THEN lo ELSE lo + q

\* a += c on float arrays
AddVec(a, c) == [i \in 1..Len(a) |-> Fl(a[i] + c[i])]

\* The weight one work item adds to each sample of the segment:
\* np.sum(abs(phi_projection_unfolded) ** 2, ...) of process_bundle_chunk_*.
\* The tensor contraction itself is abstracted: the weight is a fixed positive
\* representable value, a function of the field, the segment (family,
\* direction, sample), the Nyquist limit and the item.
ItemWeight(item, seg, psi, Nyq) ==
    [i \in 1..Len(seg.kappa) |->
        1 + ((psi * (i + Len(item)) + SumSeq(item) + 2 * item[1]
                + seg.dir + Nyq + Abs(seg.dir_k.v[1])) % 4)]

\* process_bundle_chunk_100 / _110 / _111: a fresh zero array, plus the
\* weight of every item of the chunk
RECURSIVE ChunkLoop(_, _, _, _, _, _)
ChunkLoop(chunk, n, seg, psi, Nyq, phi_folded_chunk) ==
    IF n > Len(chunk) THEN phi_folded_chunk
    ELSE ChunkLoop(chunk, n + 1, seg, psi, Nyq,
                   AddVec(phi_folded_chunk, ItemWeight(chunk[n], seg, psi, Nyq)))

process_bundle_chunk(chunk, seg, psi, Nyq) ==
    ChunkLoop(chunk, 1, seg, psi, Nyq, [i \in 1..Len(seg.phi_folded) |-> 0])

\* k_segment['phi_folded'][:] = 0
ResetFoldedSkipped(seg) == seg

ResetFolded(seg) ==
    [seg EXCEPT !.phi_folded = [i \in 1..Len(seg.phi_folded) |-> 0]]

\* for phi_folded in results: k_segment['phi_folded'] += phi_folded
RECURSIVE ReduceLoop(_, _, _)
ReduceLoop(results, n, phi_folded) ==
    IF n > Len(results) THEN phi_folded
    ELSE ReduceLoop(results, n + 1, AddVec(phi_folded, results[n]))

(***************************************************************************)
(* Inputs                                                                  *)
(***************************************************************************)
\* high-symmetry points, in units of 1/GridDen
Points ==
    {<<0, 0, 0>>, <<4, 0, 0>>, <<0, 0, 4>>, <<2, 2, 2>>, <<4, 2, 0>>, <<4, 4, 0>>}

MaxSegments == 2

MaxDkDen == 4

DkSet == {RNorm(2, d) : d \in 1..MaxDkDen}

PathInputs ==
    UNION {[1..n -> Points] : n \in 2..(MaxSegments + 1)}

MaxIdx == 3

MaxScale == 3

\* the k-paths the folding engine is run on
BsePaths ==
    {<< <<0, 0, 0>>, <<4, 0, 0>> >>,
     << <<2, 2, 2>>, <<0, 0, 0>>, <<4, 0, 0>> >>,
     << <<0, 0, 0>>, <<4, 4, 0>>, <<4, 0, 0>> >>,
     << <<0, 0, 0>>, <<2, 2, 2>>, <<4, 2, 0>> >>,
     << <<4, 0, 0>>, <<0, 0, 4>>, <<0, 0, 0>> >>,
     << <<0, 0, 0>>, <<4, 0, 0>>, <<0, 0, 0>> >>}

BseDkSet == {RNorm(1, 2)}

MaxCores == 3

N_cube == 2

cube_0 == 5

\* the input fields: a_dx is latt_par / dx, psi stands for the content
Fields ==
    {[a_dx |-> RInt(4), psi |-> 1],
     [a_dx |-> RInt(11), psi |-> 2]}

FileSet ==
    {[status |-> "ok", a_dx |-> f.a_dx, psi |-> f.psi] : f \in Fields}
        \cup {[status |-> st, a_dx |-> RInt(0), psi |-> 0] : st \in {"missing", "malformed"}}

\* the segments along an axis of unit length, to be sampled with dk_set = 0.1
ScenarioPaths ==
    {<< <<0, 0, 0>>, <<GridDen, 0, 0>> >>,
     << <<GridDen, 0, 0>>, <<0, 0, 0>> >>,
     << <<0, 0, 0>>, <<0, GridDen, 0>> >>,
     << <<0, 0, GridDen>>, <<0, 0, 0>> >>}

ScenarioDk == RNorm(1, 10)

IndexInputs ==
    {[v |-> <<x, y, z>>, n2 |-> n] :
        x \in (-MaxIdx)..MaxIdx, y \in (-MaxIdx)..MaxIdx,
        z \in (-MaxIdx)..MaxIdx, n \in 1..MaxScale}

(***************************************************************************)
(* State                                                                   *)
(***************************************************************************)
VARIABLES
    pc,                 \* position of the running program
    exc,                \* the exception that ended it, or "none"
    e_k_in, index_out,  \* argument and result of a set_index call
    k_path_points,      \* the k-path definition
    dk_set,             \* the target sample spacing
    k_path,             \* the list of segment dictionaries
    kappa_path,         \* the result of organize_output_path (<<>>: none yet)
    n_cores,            \* SLURM_CPUS_PER_TASK or os.cpu_count()
    files,              \* the cube files on disk, by loop index
    cube,               \* bse_cube: the number of loop iterations completed
    frame,              \* the locals of the running (or last) bse call
    bse_folded_states,  \* bse_cube: the rows collected so far
    state_nr,           \* bse_cube: the state numbers collected so far
    files_processed,    \* bse_cube: whether any field was analysed
    psi_shape,          \* shape of the field handed to rotate_psi
    rot_segment,        \* the segment handed to rotate_psi
    rot_out,            \* what rotate_psi / rotate_psi_111 returned
    bun_seg,            \* the segment whose bundles are built
    bun_Nyq,            \* k_structure['Nyquist']
    bun_ops,            \* bse: the segment's work list
    bun_item,           \* the work item a worker is at
    bun_out             \* the bundle set_bundle_* returned for it

pathVars == <<k_path_points, dk_set, k_path, kappa_path>>

indexVars == <<e_k_in, index_out>>

cubeVars == <<n_cores, files, cube, bse_folded_states, state_nr, files_processed>>

rotVars == <<psi_shape, rot_segment, rot_out>>

bunVars == <<bun_seg, bun_Nyq, bun_ops, bun_item, bun_out>>

vars == <<pc, exc, indexVars, pathVars, cubeVars, frame, rotVars, bunVars>>

IdleFrame ==
    [psi |-> 0, Nyq |-> 0, n_dir |-> [d \in 0..2 |-> 0],
     pos_dir |-> [d \in 0..2 |-> <<>>], fam |-> 0, seg |-> 0, phase |-> "idle",
     pos |-> 0, cores_to_use |-> 0, chunks |-> <<>>, results |-> <<>>,
     returned |-> {}, processed |-> <<>>,
     \* the rows of bse_folded_states that are views of the segments' phi_folded
     views |-> {}]

NoBse ==
    /\ n_cores = 1
    /\ files = <<>>
    /\ cube = 0
    /\ frame = IdleFrame
    /\ bse_folded_states = <<>>
    /\ state_nr = <<>>
    /\ files_processed = FALSE

NoPath ==
    /\ k_path_points = <<>>
    /\ dk_set = RInt(1)
    /\ k_path = <<>>
    /\ kappa_path = <<>>

NoIndex ==
    /\ e_k_in = "none"
    /\ index_out = "none"

NoRotate ==
    /\ psi_shape = "none"
    /\ rot_segment = "none"
    /\ rot_out = "none"

NoBundle ==
    /\ bun_seg = "none"
    /\ bun_Nyq = 0
    /\ bun_ops = <<>>
    /\ bun_item = <<>>
    /\ bun_out = [status |-> "none"]

(***************************************************************************)
(* SpecIndex: set_index applied to a direction vector                      *)
(***************************************************************************)
InitIndex ==
    /\ pc = "call"
    /\ exc = "none"
    /\ e_k_in \in IndexInputs
    /\ index_out = "none"
    /\ NoPath
    /\ NoBse
    /\ NoRotate
    /\ NoBundle

SetIndexCall ==
    /\ pc = "call"
    /\ LET r == set_index(e_k_in)
       IN  IF r.status = "ok"
           THEN /\ index_out' = [index |-> r.index, label |-> r.label]
                /\ pc' = "returned"
                /\ exc' = "none"
           ELSE /\ index_out' = "none"
                /\ pc' = "raised"
                /\ exc' = r.status
    /\ UNCHANGED <<e_k_in, pathVars, cubeVars, frame, rotVars, bunVars>>

NextIndex == SetIndexCall

SpecIndex == InitIndex /\ [][NextIndex]_vars

(***************************************************************************)
(* SpecPath: the k-path is built segment by segment from k_path_points,   *)
(* then assembled by organize_output_path                                  *)
(***************************************************************************)
InitPath ==
    /\ pc = "build"
    /\ exc = "none"
    /\ NoIndex
    /\ NoRotate
    /\ NoBundle
    /\ \/ k_path_points \in PathInputs /\ dk_set \in DkSet
       \/ k_path_points \in ScenarioPaths /\ dk_set = ScenarioDk
    /\ k_path = <<>>
    /\ kappa_path = <<>>
    /\ NoBse

BuildSegment ==
    /\ pc = "build"
    /\ Len(k_path) < Len(k_path_points) - 1
    /\ LET s == Len(k_path) + 1
           r == k_path_segment(k_path_points[s], k_path_points[s + 1], dk_set)
       IN  IF r.status = "ok"
           THEN /\ k_path' = Append(k_path, r)
                /\ UNCHANGED <<pc, exc>>
           ELSE /\ pc' = "raised"
                /\ exc' = r.status
                /\ UNCHANGED k_path
    /\ UNCHANGED <<indexVars, rotVars, bunVars, k_path_points, dk_set, kappa_path, cubeVars, frame>>

OrganizeOutputPath ==
    /\ pc = "build"
    /\ Len(k_path) = Len(k_path_points) - 1
    /\ LET r == organize_output_path(k_path, k_path_points)
       IN  IF r.status = "ok"
           THEN /\ kappa_path' = r.kappa
                /\ pc' = "assembled"
                /\ exc' = "none"
           ELSE /\ pc' = "raised"
                /\ exc' = r.status
                /\ UNCHANGED kappa_path
    /\ UNCHANGED <<indexVars, rotVars, bunVars, k_path_points, dk_set, k_path, cubeVars, frame>>

NextPath == BuildSegment \/ OrganizeOutputPath

SpecPath == InitPath /\ [][NextPath]_vars

(***************************************************************************)
(* SpecRotate: one segment's field rotation and the contraction its        *)
(* workers perform.  The field is what read_cube / clip_cube hand over: a  *)
(* grid whose three extents need not be equal.                             *)
(***************************************************************************)
MaxN == 3

\* the end points of the 26 directions of the three families, from the origin
CanonicalEnds ==
    {<<x, y, z>> : x \in {-GridDen, 0, GridDen}, y \in {-GridDen, 0, GridDen},
                   z \in {-GridDen, 0, GridDen}} \ {<<0, 0, 0>>}

InitRotate ==
    /\ pc = "rotate"
    /\ exc = "none"
    /\ \/ \E a \in Points, b \in Points :
             /\ a # b
             /\ rot_segment = k_path_segment(a, b, RNorm(1, 2))
       \/ \E b \in CanonicalEnds :
             rot_segment = k_path_segment(<<0, 0, 0>>, b, RNorm(1, 2))
    /\ rot_segment.status = "ok"
    /\ psi_shape \in (1..MaxN) \X (1..MaxN) \X (1..MaxN)
    /\ rot_out = "none"
    /\ NoIndex
    /\ NoPath
    /\ NoBse
    /\ NoBundle

\* bse: psi_rot, r_par, ... = rotate_psi(psi, k_segment) for the 100 and 110
\* families, rotate_psi_111(psi, k_segment) for the 111 family
RotatePsi ==
    /\ pc = "rotate"
    /\ rot_out' = IF rot_segment.dir = 2
                  THEN rotate_psi_111(psi_shape, rot_segment)
                  ELSE rotate_psi(psi_shape, rot_segment)
    /\ pc' = "rotated"
    /\ UNCHANGED <<exc, psi_shape, rot_segment, indexVars, pathVars, cubeVars, frame, bunVars>>

\* process_bundle_chunk_*: the two np.tensordot contractions
Contract ==
    /\ pc = "rotated"
    /\ IF Conforming(rot_out)
       THEN pc' = "contracted" /\ UNCHANGED exc
       ELSE pc' = "raised" /\ exc' = "ValueError"
    /\ UNCHANGED <<rotVars, bunVars, indexVars, pathVars, cubeVars, frame>>

NextRotate == RotatePsi \/ Contract

SpecRotate == InitRotate /\ [][NextRotate]_vars

(***************************************************************************)
(* SpecBundle: the bundles of one segment.  bse lists the segment's work   *)
(* items and sizes the pool; the workers call set_bundle_* on the items,   *)
(* in any order.  The Nyquist limit is the one summary_k_path computes for *)
(* a ratio a_dx of lattice parameter to grid spacing.                      *)
(***************************************************************************)
MaxADx == 11

\* the limits summary_k_path returns for a_dx = 1, ..., MaxADx
NyquistLimits == {Nyquist(RInt(a)) : a \in 1..MaxADx}

InitBundle ==
    /\ pc = "enumerate"
    /\ exc = "none"
    /\ \E b \in CanonicalEnds :
          bun_seg = k_path_segment(<<0, 0, 0>>, b, RNorm(1, 2))
    /\ bun_Nyq \in NyquistLimits
    /\ bun_ops = <<>>
    /\ bun_item = <<>>
    /\ bun_out = [status |-> "none"]
    /\ NoIndex
    /\ NoPath
    /\ NoBse
    /\ NoRotate

\* bse: tensordot_operations = [...]; cores_to_use = min(n_cores, num);
\* chunk_size = max(1, num // cores_to_use)
BundleEnumerate ==
    /\ pc = "enumerate"
    /\ LET operations == tensordot_operations(bun_seg, bun_Nyq)
           cores_to_use == Min2(n_cores, Len(operations))
       IN  /\ bun_ops' = operations
           /\ IF cores_to_use = 0
              THEN pc' = "raised" /\ exc' = "ZeroDivisionError"
              ELSE pc' = "bundles" /\ UNCHANGED exc
    /\ UNCHANGED <<bun_seg, bun_Nyq, bun_item, bun_out,
                   indexVars, pathVars, cubeVars, frame, rotVars>>

\* process_bundle_chunk_*: bundle = set_bundle_*(...) for an item of the list
BundleSet(n) ==
    /\ pc = "bundles"
    /\ bun_item' = bun_ops[n]
    /\ LET item == bun_ops[n]
           bundle ==
             IF bun_seg.dir = 0 THEN set_bundle_100(item[1], bun_seg, bun_Nyq)
             ELSE IF bun_seg.dir = 1
             THEN set_bundle_110(combinations_110_bis(bun_seg, item[2], item[1], bun_Nyq),
                                 item[2], item[1], bun_seg, bun_Nyq)
             ELSE set_bundle_111(combinations_111(item[2], item[3], item[1], bun_seg),
                                 item[2], item[3], item[1], bun_seg, bun_Nyq)
       IN  /\ bun_out' = bundle
           /\ IF bundle.status = "ok"
              THEN UNCHANGED <<pc, exc>>
              ELSE pc' = "raised" /\ exc' = bundle.status
    /\ UNCHANGED <<bun_seg, bun_Nyq, bun_ops,
                   indexVars, pathVars, cubeVars, frame, rotVars>>

NextBundle ==
    \/ BundleEnumerate
    \/ \E n \in 1..Len(bun_ops) : BundleSet(n)

SpecBundle == InitBundle /\ [][NextBundle]_vars

(***************************************************************************)
(* The whole run: the k-path is built and assembled, then bse_cube folds   *)
(* every cube file along it.  Each bse call walks the 100 segments, then   *)
(* the 110 segments, then the 111 segments.  A segment whose chunks go to  *)
(* Parallel is dispatched, its workers return in any order, and the        *)
(* results are summed in chunk order.                                      *)
(***************************************************************************)
Init ==
    /\ pc = "build"
    /\ exc = "none"
    /\ NoIndex
    /\ NoRotate
    /\ NoBundle
    /\ k_path_points \in BsePaths
    /\ dk_set \in BseDkSet
    /\ k_path = <<>>
    /\ kappa_path = <<>>
    /\ n_cores \in 1..MaxCores
    /\ files \in [1..N_cube -> FileSet]
    /\ cube = 0
    /\ frame = IdleFrame
    /\ bse_folded_states = <<>>
    /\ state_nr = <<>>
    /\ files_processed = FALSE

\* bse_cube, up to the loop over the cube files
BseCubeStart ==
    /\ pc = "assembled"
    /\ pc' = "bse_cube"
    /\ cube' = 0
    /\ bse_folded_states' = <<>>
    /\ state_nr' = <<>>
    /\ files_processed' = FALSE
    /\ UNCHANGED <<exc, indexVars, rotVars, bunVars, pathVars, n_cores, files, frame>>

AtCube == pc = "bse_cube" /\ cube < Len(files)

ReadCubeMissingBreaks ==
    /\ AtCube
    /\ files[cube + 1].status = "missing"
    /\ cube' = Len(files)
    /\ UNCHANGED <<pc, exc, indexVars, rotVars, bunVars, pathVars, n_cores, files, frame,
                   bse_folded_states, state_nr, files_processed>>

\* read_cube catches FileNotFoundError: no_error is False, the loop continues
ReadCubeMissing ==
    /\ AtCube
    /\ files[cube + 1].status = "missing"
    /\ cube' = cube + 1
    /\ UNCHANGED <<pc, exc, indexVars, rotVars, bunVars, pathVars, n_cores, files, frame,
                   bse_folded_states, state_nr, files_processed>>

\* read_cube catches nothing else: a parse error leaves bse_cube
ReadCubeMalformed ==
    /\ AtCube
    /\ files[cube + 1].status = "malformed"
    /\ pc' = "raised"
    /\ exc' \in {"ValueError", "IndexError"}
    /\ UNCHANGED <<indexVars, rotVars, bunVars, pathVars, cubeVars, frame>>

\* the field is loaded and bse starts on it
ReadCubeLoaded ==
    /\ AtCube
    /\ files[cube + 1].status = "ok"
    /\ LET k_structure == summary_k_path(k_path, files[cube + 1].a_dx)
       IN  frame' = [IdleFrame EXCEPT !.psi = files[cube + 1].psi,
                                      !.Nyq = k_structure.Nyquist,
                                      !.n_dir = k_structure.n_dir,
                                      !.pos_dir = k_structure.pos_dir,
                                      !.views = frame.views,
                                      !.phase = "segment"]
    /\ pc' = "bse"
    /\ UNCHANGED <<exc, indexVars, rotVars, bunVars, pathVars, cubeVars>>

UsesParallelAlways(fam, num) == TRUE

\* `if num_tensordot_operations > 1:` guards the Parallel call of the 100
\* and 110 loops; the 111 loop calls Parallel unconditionally
UsesParallel(fam, num) == fam = 2 \/ num > 1

AtSegment ==
    /\ pc = "bse"
    /\ frame.phase = "segment"
    /\ frame.seg < frame.n_dir[frame.fam]

\* one iteration of a family loop, up to the Parallel call (or, for a
\* single-item 100 or 110 work list, to the end of the iteration)
SegmentStart ==
    /\ AtSegment
    /\ LET pos == frame.pos_dir[frame.fam][frame.seg + 1]
           k_segment == ResetFolded(k_path[pos])
           operations == tensordot_operations(k_segment, frame.Nyq)
           num == Len(operations)
           cores_to_use == Min2(n_cores, num)
       IN  IF cores_to_use = 0
           THEN /\ pc' = "raised"
                /\ exc' = "ZeroDivisionError"
                /\ k_path' = [k_path EXCEPT ![pos] = k_segment]
                /\ UNCHANGED frame
           ELSE LET chunk_size == Max2(1, num \div cores_to_use)
                    chunks == chunked_iterable(operations, chunk_size)
                IN  IF UsesParallel(frame.fam, num)
                    THEN /\ frame' = [frame EXCEPT !.phase = "parallel",
                                                   !.pos = pos,
                                                   !.cores_to_use = cores_to_use,
                                                   !.chunks = chunks,
                                                   !.results = [c \in 1..Len(chunks) |-> <<>>],
                                                   !.returned = {}]
                         /\ k_path' = [k_path EXCEPT ![pos] = k_segment]
                         /\ UNCHANGED <<pc, exc>>
                    ELSE LET inline == [n \in 1..num |->
                                          process_bundle_chunk(<<operations[n]>>, k_segment,
                                                               frame.psi, frame.Nyq)]
                             done == [k_segment EXCEPT
                                        !.phi_folded = ReduceLoop(inline, 1, k_segment.phi_folded)]
                         IN  /\ k_path' = [k_path EXCEPT ![pos] = done]
                             /\ frame' = [frame EXCEPT !.seg = frame.seg + 1,
                                                       !.pos = pos,
                                                       !.cores_to_use = cores_to_use,
                                                       !.chunks = chunks,
                                                       !.processed = Append(frame.processed,
                                                                            [pos |-> pos, chunks |-> chunks,
                                                                             parallel |-> FALSE,
                                                                             n_jobs |-> 0])]
                             /\ UNCHANGED <<pc, exc>>
    /\ bse_folded_states' = RowsSeen(bse_folded_states, frame.views, k_path')
    /\ UNCHANGED <<indexVars, rotVars, bunVars, k_path_points, dk_set, kappa_path,
                   n_cores, files, cube, state_nr, files_processed>>

\* a joblib worker runs process_bundle_chunk_* on its chunk
WorkerRunShared(c) ==
    /\ pc = "bse"
    /\ frame.phase = "parallel"
    /\ c \notin frame.returned
    /\ k_path' = [k_path EXCEPT ![frame.pos].phi_folded =
                     ChunkLoop(frame.chunks[c], 1, k_path[frame.pos], frame.psi,
                               frame.Nyq, k_path[frame.pos].phi_folded)]
    /\ frame' = [frame EXCEPT
                   !.results[c] = [i \in 1..Len(k_path[frame.pos].phi_folded) |-> 0],
                   !.returned = frame.returned \cup {c}]
    /\ UNCHANGED <<pc, exc, indexVars, rotVars, bunVars, k_path_points, dk_set, kappa_path, cubeVars>>

WorkerRun(c) ==
    /\ pc = "bse"
    /\ frame.phase = "parallel"
    /\ c \notin frame.returned
    /\ frame' = [frame EXCEPT
                   !.results[c] = process_bundle_chunk(frame.chunks[c], k_path[frame.pos],
                                                       frame.psi, frame.Nyq),
                   !.returned = frame.returned \cup {c}]
    /\ UNCHANGED <<pc, exc, indexVars, rotVars, bunVars, pathVars, cubeVars>>

\* Parallel has returned every result: they are summed in chunk order
SegmentReduceEarly ==
    /\ pc = "bse"
    /\ frame.phase = "parallel"
    /\ frame.returned # {}
    /\ k_path' = [k_path EXCEPT ![frame.pos].phi_folded =
                     ReduceLoop([c \in 1..Len(frame.chunks) |->
                                   IF c \in frame.returned THEN frame.results[c]
                                   ELSE [i \in 1..Len(k_path[frame.pos].phi_folded) |-> 0]],
                                1, k_path[frame.pos].phi_folded)]
    /\ frame' = [frame EXCEPT !.phase = "segment",
                              !.seg = frame.seg + 1,
                              !.processed = Append(frame.processed,
                                                   [pos |-> frame.pos, chunks |-> frame.chunks,
                                                    parallel |-> TRUE,
                                                    n_jobs |-> frame.cores_to_use])]
    /\ UNCHANGED <<pc, exc, indexVars, rotVars, bunVars, k_path_points, dk_set, kappa_path, cubeVars>>

SegmentReduce ==
    /\ pc = "bse"
    /\ frame.phase = "parallel"
    /\ frame.returned = 1..Len(frame.chunks)
    /\ k_path' = [k_path EXCEPT ![frame.pos].phi_folded =
                     ReduceLoop(frame.results, 1, k_path[frame.pos].phi_folded)]
    /\ frame' = [frame EXCEPT !.phase = "segment",
                              !.seg = frame.seg + 1,
                              !.processed = Append(frame.processed,
                                                   [pos |-> frame.pos, chunks |-> frame.chunks,
                                                    parallel |-> TRUE,
                                                    n_jobs |-> frame.cores_to_use])]
    /\ bse_folded_states' = RowsSeen(bse_folded_states, frame.views, k_path')
    /\ UNCHANGED <<pc, exc, indexVars, rotVars, bunVars, k_path_points, dk_set, kappa_path,
                   n_cores, files, cube, state_nr, files_processed>>

\* a family loop is exhausted: on to the next family
NextFamily ==
    /\ pc = "bse"
    /\ frame.phase = "segment"
    /\ frame.seg = frame.n_dir[frame.fam]
    /\ frame.fam < 2
    /\ frame' = [frame EXCEPT !.fam = frame.fam + 1, !.seg = 0]
    /\ UNCHANGED <<pc, exc, indexVars, rotVars, bunVars, pathVars, cubeVars>>

\* bse returns organize_output_phi(k_path); bse_cube appends the row
BseReturn ==
    /\ pc = "bse"
    /\ frame.phase = "segment"
    /\ frame.fam = 2
    /\ frame.seg = frame.n_dir[2]
    /\ LET r == organize_output_phi(k_path)
       IN  IF r.status = "ok"
           THEN /\ bse_folded_states' = Append(bse_folded_states, r.phi)
                /\ state_nr' = Append(state_nr, cube_0 + cube)
                /\ files_processed' = TRUE
                /\ cube' = cube + 1
                /\ pc' = "bse_cube"
                /\ UNCHANGED exc
           ELSE /\ pc' = "raised"
                /\ exc' = r.status
                /\ UNCHANGED <<bse_folded_states, state_nr, files_processed, cube>>
    /\ frame' = [frame EXCEPT
                   !.phase = "idle",
                   !.views = LET r == organize_output_phi(k_path)
                             IN  IF r.status = "ok" /\ r.base = "k_path"
                                 THEN @ \cup {Len(bse_folded_states) + 1}
                                 ELSE @]
    /\ UNCHANGED <<indexVars, rotVars, bunVars, pathVars, n_cores, files>>

\* the loop over the cube files is over: np.vstack, or the empty arrays
BseCubeReturn ==
    /\ pc = "bse_cube"
    /\ cube = Len(files)
    /\ pc' = "returned"
    /\ UNCHANGED <<exc, indexVars, rotVars, bunVars, pathVars, cubeVars, frame>>

Next ==
    \/ BuildSegment
    \/ OrganizeOutputPath
    \/ BseCubeStart
    \/ ReadCubeMissing
    \/ ReadCubeMalformed
    \/ ReadCubeLoaded
    \/ SegmentStart
    \/ \E c \in 1..Len(frame.chunks) : WorkerRun(c)
    \/ SegmentReduce
    \/ NextFamily
    \/ BseReturn
    \/ BseCubeReturn

Spec == Init /\ [][Next]_vars


(***************************************************************************)
(* Claims on the direction classifier (SpecIndex)                          *)
(***************************************************************************)
NonZeroCount(v) == Cardinality({i \in Axes : v[i] # 0})

\* a positive multiple of a signed permutation of (1,0,0), (1,1,0) or (1,1,1)
IsCanonical(v) ==
    /\ v # <<0, 0, 0>>
    /\ \A i, j \in Axes : v[i] # 0 /\ v[j] # 0 => Abs(v[i]) = Abs(v[j])

\* C6: for every signed permutation of (1,0,0), (1,1,0), (1,1,1) scaled to a
\* positive length, set_index returns and does not raise, the label is the
\* number of non-zero components minus one (0, 1, 2) and the index vector is
\* the integer tuple itself: entries -1, 0, 1 with the signs of the input.
C6_ClassifierOnCanonical ==
    (pc # "call" /\ IsCanonical(e_k_in.v)) =>
        /\ pc = "returned"
        /\ index_out.label = NonZeroCount(e_k_in.v) - 1
        /\ \A i \in Axes : index_out.index[i] = RInt(Sgn(e_k_in.v[i]))

C6_Witness ==
    /\ pc = "returned"
    /\ e_k_in.v = <<-2, 2, -2>>
    /\ e_k_in.n2 = 3
    /\ index_out.label = 2

(***************************************************************************)
(* Claims on the segment builder and the path assembler (SpecPath)         *)
(***************************************************************************)
Segments == {k_path[s] : s \in 1..Len(k_path)}

StrictlyIncreasing(seq) ==
    \A i, j \in 1..Len(seq) : i < j => Less(seq[i], seq[j])

\* C2: the kappa sequence that organize_output_path returns is strictly
\* increasing over its whole length, across segment boundaries and at the
\* closing point.
C2_PathStrictlyIncreasing ==
    pc = "assembled" => StrictlyIncreasing(kappa_path)

C2_Witness ==
    /\ pc = "assembled"
    /\ Len(k_path) = 2
    /\ k_path[1].dir = 2
    /\ k_path[2].dir = 1
    /\ Len(k_path[1].kappa) >= 2
    /\ Len(k_path[2].kappa) >= 2
    /\ Len(kappa_path) = Len(k_path[1].kappa) + Len(k_path[2].kappa) + 1

\* C3 (as claimed): every segment k_path_segment returns has sampleCount
\* samples with sampleCount >= 1 so that the first and last exist, the first
\* is dot(k1, direction), the last plus sampleSpacing is dot(k2, direction),
\* and sampleCount * sampleSpacing is kappa2 - kappa1.
SegmentRoundTrip(seg) ==
    /\ Len(seg.kappa) = Len(seg.phi_folded)
    /\ Len(seg.kappa) >= 1
    /\ seg.kappa[1] = seg.kappa_12[1]
    /\ Add(seg.kappa[Len(seg.kappa)], seg.dk) = seg.kappa_12[2]
    /\ Scale(RInt(Len(seg.kappa)), seg.dk) = Sub(seg.kappa_12[2], seg.kappa_12[1])

C3_SegmentRoundTrip == \A seg \in Segments : SegmentRoundTrip(seg)

\* C4 (as claimed): k_path_segment never returns a segment with sampleCount 0.
C4_NoEmptySegment == \A seg \in Segments : Len(seg.kappa) >= 1

\* C5 (as claimed): parallelSign is 1 for every 100-family segment.
C5_SignOneFor100 == \A seg \in Segments : seg.dir = 0 => seg.r_par_sign = 1

\* C5 (amended): for a 100-family segment parallelSign is the sign of the
\* direction's non-zero component: 1 for +x, +y, +z and -1 for -x, -y, -z.
C5_SignFollowsAxis ==
    \A seg \in Segments :
        seg.dir = 0 =>
            /\ NonZeroCount(seg.dir_k.v) = 1
            /\ \A i \in Axes :
                  seg.dir_k.v[i] # 0 => seg.r_par_sign = Sgn(seg.dir_k.v[i])

C5_Witness ==
    /\ Len(k_path) = 2
    /\ k_path[1].dir = 0 /\ k_path[1].dir_k.v[3] < 0 /\ k_path[1].r_par_sign = -1
    /\ k_path[2].dir = 0 /\ k_path[2].dir_k.v[1] > 0 /\ k_path[2].r_par_sign = 1

(***************************************************************************)
(* Claims about the folding engine and bse_cube                            *)
(***************************************************************************)
\* the result of folding a segment's whole work list as one chunk, in order
Zeroed(seg) == [seg EXCEPT !.phi_folded = [i \in 1..Len(seg.kappa) |-> 0]]

SingleChunk(seg, psi, Nyq) ==
    LET zeroed == Zeroed(seg)
    IN  AddVec(zeroed.phi_folded,
               process_bundle_chunk(tensordot_operations(seg, Nyq), zeroed, psi, Nyq))

\* the sum of the contributions of a work list, without any rounding
RECURSIVE ExactSum(_, _, _, _, _)
ExactSum(operations, n, seg, psi, Nyq) ==
    IF n > Len(operations) THEN [i \in 1..Len(seg.kappa) |-> 0]
    ELSE LET rest == ExactSum(operations, n + 1, seg, psi, Nyq)
             w == ItemWeight(operations[n], seg, psi, Nyq)
         IN  [i \in 1..Len(seg.kappa) |-> w[i] + rest[i]]

\* x is a floating-point sum of n non-negative terms whose exact sum is e:
\* each of the n - 1 roundings moves it by at most half the spacing at x
WithinRounding(x, e, n) == 2 * Abs(x - e) <= (n - 1) * Spacing(x)

\* C1 (as claimed): for every work list and every core count, the folded
\* weight bse leaves in a processed segment equals the result of processing
\* the whole work list as a single chunk in order.
C1_ChunkingEquivalence ==
    \A n \in 1..Len(frame.processed) :
        LET seg == k_path[frame.processed[n].pos]
        IN  seg.phi_folded = SingleChunk(seg, frame.psi, frame.Nyq)

\* C1 (amended): the chunks of a processed segment are its work list cut in
\* order, every item in exactly one chunk; the folded weight bse leaves in
\* the segment and the single-chunk result are both the exact sum of the N
\* contributions up to the rounding of their N - 1 additions; and the two
\* are identical when there is one chunk or every chunk holds one item.
C1_ChunkingUpToRounding ==
    \A n \in 1..Len(frame.processed) :
        LET seg == k_path[frame.processed[n].pos]
            chunks == frame.processed[n].chunks
            operations == tensordot_operations(seg, frame.Nyq)
            num == Len(operations)
            single == SingleChunk(seg, frame.psi, frame.Nyq)
            exact == ExactSum(operations, 1, seg, frame.psi, frame.Nyq)
        IN  /\ num >= 1
            /\ Flatten(chunks) = operations
            /\ \A c \in 1..Len(chunks) : Len(chunks[c]) >= 1
            /\ \A i \in 1..Len(seg.phi_folded) :
                  /\ WithinRounding(seg.phi_folded[i], exact[i], num)
                  /\ WithinRounding(single[i], exact[i], num)
            /\ (Len(chunks) = 1 \/ Len(chunks) = num) => seg.phi_folded = single

\* a segment has been folded from three chunks, the last one shorter, and its
\* weight differs from the single-chunk result
C1_Witness ==
    /\ pc = "bse"
    /\ frame.phase = "segment"
    /\ Len(frame.processed) > 0
    /\ LET p == frame.processed[Len(frame.processed)]
           seg == k_path[p.pos]
       IN  /\ Len(p.chunks) = 3
           /\ Len(p.chunks[3]) < Len(p.chunks[1])
           /\ seg.phi_folded # SingleChunk(seg, frame.psi, frame.Nyq)
    /\ n_cores > 1

RECURSIVE LoadedNumbers(_)
LoadedNumbers(n) ==
    IF n = 0 THEN <<>>
    ELSE LoadedNumbers(n - 1)
            \o (IF files[n].status = "ok" THEN <<cube_0 + n - 1>> ELSE <<>>)

\* C7: when fields are missing, bse_cube skips them and still returns the
\* rows of the others: one row and one state number per loaded field, in
\* file order, and files_processed is false exactly when there is no row.
C7_MissingFieldsSkipped ==
    pc = "returned" =>
        /\ state_nr = LoadedNumbers(Len(files))
        /\ Len(bse_folded_states) = Len(state_nr)
        /\ files_processed = (Len(bse_folded_states) > 0)

\* a run returns with the row of the second field after the first was missing
C7_Witness ==
    /\ pc = "returned"
    /\ files[1].status = "missing"
    /\ files[Len(files)].status = "ok"
    /\ state_nr = <<cube_0 + Len(files) - 1>>
    /\ files_processed

\* C8 (as stated): a field whose file is malformed is skipped and the loop
\* goes on to the next field.
C8_MalformedFieldsSkipped ==
    [][(AtCube /\ files[cube + 1].status = "malformed")
          => (pc' = "bse_cube" /\ cube' = cube + 1)]_vars

\* the weight bse computes for one segment from zero
FoldSegment(seg, psi, Nyq) ==
    LET k_segment == Zeroed(seg)
        operations == tensordot_operations(k_segment, Nyq)
        num == Len(operations)
        size == Max2(1, num \div Min2(n_cores, num))
        chunks == [c \in 1..CeilDiv(num, size) |->
                     SubSeq(operations, (c - 1) * size + 1, Min2(c * size, num))]
        results == [c \in 1..Len(chunks) |->
                      process_bundle_chunk(chunks[c], k_segment, psi, Nyq)]
    IN  ReduceLoop(results, 1, k_segment.phi_folded)

\* the row a field gets when it is folded along the freshly built path
FreshRow(file) ==
    LET Nyq == summary_k_path(k_path, file.a_dx).Nyquist
        fresh == [s \in 1..Len(k_path) |->
                    [k_path[s] EXCEPT !.phi_folded = FoldSegment(k_path[s], file.psi, Nyq)]]
    IN  organize_output_phi(fresh).phi

\* C9: the row of a field does not depend on the fields processed before
\* it: every row equals the row its field gets on a fresh path, so the same
\* field processed twice gives identical rows.
C9_ResetIndependence ==
    \A j \in 1..Len(bse_folded_states) :
        /\ bse_folded_states[j] = FreshRow(files[state_nr[j] - cube_0 + 1])
        /\ \A i \in 1..Len(bse_folded_states) :
              files[state_nr[i] - cube_0 + 1] = files[state_nr[j] - cube_0 + 1]
                  => bse_folded_states[i] = bse_folded_states[j]

\* the same field has been processed twice
C9_Witness ==
    /\ Len(bse_folded_states) >= 2
    /\ files[state_nr[1] - cube_0 + 1] = files[state_nr[2] - cube_0 + 1]
    /\ Len(k_path) >= 2

SampleTotal == SumSeq([s \in 1..Len(k_path) |-> Len(k_path[s].kappa)])

\* C10: the assembled kappa axis and every assembled row have the same
\* length, the sum of the segments' sample counts plus one.
C10_OutputLength ==
    /\ Len(kappa_path) > 0 => Len(kappa_path) = SampleTotal + 1
    /\ \A j \in 1..Len(bse_folded_states) :
          /\ Len(bse_folded_states[j]) = Len(kappa_path)
          /\ Len(bse_folded_states[j]) = SampleTotal + 1

\* a row has been assembled for a path of two segments
C10_Witness ==
    /\ Len(bse_folded_states) >= 1
    /\ Len(k_path) >= 2
    /\ Len(bse_folded_states[1]) = Len(kappa_path)
    /\ Len(kappa_path) = SampleTotal + 1


(***************************************************************************)
(* Claims on the assembled rows, the segment scenario and the family label *)
(***************************************************************************)
\* the k-path ends at the point it starts from
Periodic == k_path_points[1] = k_path_points[Len(k_path_points)]

\* the row is the segments' weights followed by a copy of its first value
ClosedWithFirst(row) ==
    /\ Len(row) = SampleTotal + 1
    /\ row[Len(row)] = row[1]

\* C11 (as claimed): the assembler appends the copy of the very first folded
\* weight when the path is periodic, and only then: the row of a path that
\* does not end at its start carries no such closing copy.
C11_WrapOnlyWhenPeriodic ==
    \A j \in 1..Len(bse_folded_states) :
        ClosedWithFirst(bse_folded_states[j]) <=> Periodic

\* C12: the segment from (0,0,0) to (1,0,0) built with dk_set = 0.1 is a
\* 100-family segment with 10 samples spaced by 0.1, the samples 0.0, 0.1,
\* ..., 0.9; the end point 1.0 is not a sample.
C12_UnitSegmentScenario ==
    (/\ k_path_points = << <<0, 0, 0>>, <<GridDen, 0, 0>> >>
     /\ dk_set = RNorm(1, 10))
        => /\ pc # "raised"
           /\ \A s \in 1..Len(k_path) :
                 /\ k_path[s].dir = 0
                 /\ Len(k_path[s].kappa) = 10
                 /\ k_path[s].dk = Rat(RNorm(1, 10))
                 /\ \A i \in 1..10 : k_path[s].kappa[i] = Rat(RNorm(i - 1, 10))

\* the scenario segment has been built and assembled
C12_Witness ==
    /\ k_path_points = << <<0, 0, 0>>, <<GridDen, 0, 0>> >>
    /\ dk_set = RNorm(1, 10)
    /\ pc = "assembled"
    /\ Len(k_path) = 1
    /\ Len(k_path[1].kappa) = 10

\* the non-zero components of v all have the same magnitude
EqualMagnitudes(v) ==
    \A i, j \in Axes : (v[i] # 0 /\ v[j] # 0) => Abs(v[i]) = Abs(v[j])

\* C13 (as claimed): for every non-zero direction set_index returns a label
\* in {0, 1, 2}, and label n only for a direction with n + 1 non-zero
\* components of equal magnitude.
C13_LabelIdentifiesFamily ==
    (pc # "call" /\ e_k_in.v # <<0, 0, 0>>) =>
        /\ pc = "returned"
        /\ index_out.label \in {0, 1, 2}
        /\ NonZeroCount(e_k_in.v) = index_out.label + 1
        /\ EqualMagnitudes(e_k_in.v)

(***************************************************************************)
(* Claims on the work lists and their dispatch                             *)
(***************************************************************************)
\* the bundle indices of the items folded into a processed segment
BundlesFolded(p) ==
    LET items == Flatten(p.chunks)
    IN  {items[n][1] : n \in 1..Len(items)}

\* C14 (as claimed): for each segment bse sums the contributions of every
\* origin of the segment's bundle origins, b = 0 (zero offset) and b = 1
\* (body-centred offset).
C14_EveryBundleSummed ==
    \A n \in 1..Len(frame.processed) :
        LET p == frame.processed[n]
        IN  BundlesFolded(p) = 0..(Len(k_path[p.pos].origin_bun) - 1)

\* the number of work items of a processed segment
ItemCount(p) == Len(Flatten(p.chunks))

C16_RampsFollowArray ==
    pc \in {"rotated", "contracted", "raised"} =>
        /\ Conforming(rot_out)
        /\ pc # "raised"

\* C16 for the families whose ramps are read from the rotated field
C16_RampsFollowArray110And111 ==
    (pc \in {"rotated", "contracted", "raised"} /\ rot_segment.dir # 0) =>
        /\ Conforming(rot_out)
        /\ pc # "raised"

C16_Witness ==
    /\ pc = "contracted"
    /\ rot_segment.dir = 2
    /\ psi_shape[1] # psi_shape[2]
    /\ rot_out.shape # psi_shape

\* the number of work items in the chunks before chunk j
ChunkOffset(chunks, j) == SumSeq([i \in 1..(j - 1) |-> Len(chunks[i])])

\* chunks cuts operations into non-empty consecutive pieces, each work item
\* lying in exactly one of them
ChunkPartition(chunks, operations) ==
    /\ ChunkOffset(chunks, Len(chunks) + 1) = Len(operations)
    /\ \A j \in 1..Len(chunks) :
          /\ Len(chunks[j]) >= 1
          /\ chunks[j] = SubSeq(operations, ChunkOffset(chunks, j) + 1,
                                ChunkOffset(chunks, j) + Len(chunks[j]))
    /\ \A n \in 1..Len(operations) :
          Cardinality({ji \in {<<j, i>> : j \in 1..Len(chunks), i \in 1..Len(operations)} :
                          /\ ji[2] <= Len(chunks[ji[1]])
                          /\ chunks[ji[1]][ji[2]] = operations[n]}) = 1

\* C17: the chunks bse hands to the workers of a segment with at least one
\* work item are non-empty, contiguous and disjoint, and put end to end in
\* dispatch order they are the segment's work list.
C17_ChunkPartition ==
    (pc = "bse" /\ frame.phase = "parallel") =>
        /\ Len(frame.chunks) >= 1
        /\ ChunkPartition(frame.chunks,
                          tensordot_operations(k_path[frame.pos], frame.Nyq))

\* a dispatch whose last chunk is shorter than the others and that has more
\* chunks than workers
C17_Witness ==
    /\ pc = "bse"
    /\ frame.phase = "parallel"
    /\ Len(frame.chunks) > frame.cores_to_use
    /\ Len(frame.chunks[Len(frame.chunks)]) < Len(frame.chunks[1])

\* the result of a chunk accumulated from a fresh zero array
FreshChunkResult(c) ==
    LET seg == k_path[frame.pos]
        RECURSIVE Acc(_, _)
        Acc(n, sum) ==
            IF n > Len(frame.chunks[c]) THEN sum
            ELSE Acc(n + 1, AddVec(sum, ItemWeight(frame.chunks[c][n], seg,
                                                   frame.psi, frame.Nyq)))
    IN  Acc(1, [i \in 1..Len(seg.kappa) |-> 0])

\* a step in which a worker hands back its chunk
WorkerReturns == frame.phase = "parallel" /\ frame'.returned # frame.returned

\* C18: a worker processing a chunk writes neither the segment records (the
\* folded weights included) nor the path summary nor the field; it fills
\* only its own result, accumulated from a fresh zero array, so the results
\* held at any moment do not depend on the order in which chunks ran, and
\* the folded weight of the segment in flight stays as the coordinator
\* zeroed it until the reduction.
C18_WorkersShareNothing ==
    /\ [][WorkerReturns =>
             /\ k_path' = k_path
             /\ kappa_path' = kappa_path
             /\ frame'.psi = frame.psi
             /\ frame'.Nyq = frame.Nyq
             /\ frame'.n_dir = frame.n_dir
             /\ frame'.pos_dir = frame.pos_dir
             /\ frame'.chunks = frame.chunks
             /\ \E c \in frame'.returned \ frame.returned :
                   /\ frame'.returned = frame.returned \cup {c}
                   /\ frame'.results = [frame.results EXCEPT ![c] = FreshChunkResult(c)]]_vars
    /\ []((pc = "bse" /\ frame.phase = "parallel") =>
             /\ \A c \in frame.returned : frame.results[c] = FreshChunkResult(c)
             /\ \A i \in 1..Len(k_path[frame.pos].phi_folded) :
                   k_path[frame.pos].phi_folded[i] = 0)

\* a later chunk has returned before the first one
C18_Witness ==
    /\ pc = "bse"
    /\ frame.phase = "parallel"
    /\ Len(frame.chunks) >= 3
    /\ frame.returned = {3, 2}
    /\ frame.results[2] # frame.results[3]

\* a step of the coordinator past the Parallel call of the segment in flight
LeavesParallel ==
    /\ frame.phase = "parallel"
    /\ \/ frame'.phase # "parallel"
       \/ k_path' # k_path
       \/ frame'.processed # frame.processed
       \/ frame'.seg # frame.seg
       \/ frame'.fam # frame.fam
       \/ pc' # pc
       \/ cube' # cube
       \/ bse_folded_states' # bse_folded_states

\* C19: the coordinator adds chunk results into the folded weight only when
\* every chunk dispatched for the segment has returned; while a chunk is
\* outstanding no reduction, no later segment and no return of bse can
\* happen, so a chunk that never returns stalls everything after it.
C19_FanInBeforeReduce ==
    [][LeavesParallel =>
          /\ frame.returned = 1..Len(frame.chunks)
          /\ frame'.phase = "segment"
          /\ frame'.seg = frame.seg + 1
          /\ k_path' = [k_path EXCEPT ![frame.pos].phi_folded =
                           ReduceLoop(frame.results, 1, k_path[frame.pos].phi_folded)]]_vars

\* some chunks have returned, another is outstanding, nothing is reduced
C19_Witness ==
    /\ pc = "bse"
    /\ frame.phase = "parallel"
    /\ frame.returned # {}
    /\ frame.returned # 1..Len(frame.chunks)
    /\ \E c \in frame.returned :
          \E i \in 1..Len(frame.results[c]) : frame.results[c][i] > 0
    /\ \A i \in 1..Len(k_path[frame.pos].phi_folded) : k_path[frame.pos].phi_folded[i] = 0

\* the positions of the family-d segments of the path, in path order
FamilyPositions(d) ==
    LET S == {p \in 1..Len(k_path) : k_path[p].dir = d}
    IN  [i \in 1..Cardinality(S) |->
            CHOOSE p \in S : Cardinality({q \in S : q < p}) = i - 1]

\* the 100 segments, then the 110 segments, then the 111 segments
FamilyOrder == FamilyPositions(0) \o FamilyPositions(1) \o FamilyPositions(2)

\* the segment whose turn it is
NextInOrder == FamilyOrder[Len(frame.processed) + 1]

\* C20: within one bse call the segments are processed in family order
\* (100, 110, 111) and in path order within a family, each exactly once; a
\* segment is in flight only when every segment before it has been reduced;
\* and the folded weight of a segment is written (zeroed, reduced) only
\* while it is that segment's turn.
C20_SegmentOrder ==
    /\ [](pc = "bse" =>
             /\ Len(frame.processed) <= Len(FamilyOrder)
             /\ \A n \in 1..Len(frame.processed) : frame.processed[n].pos = FamilyOrder[n]
             /\ frame.phase = "parallel" =>
                   /\ Len(frame.processed) < Len(FamilyOrder)
                   /\ frame.pos = NextInOrder
             /\ (frame.phase = "segment" /\ frame.fam = 2 /\ frame.seg = frame.n_dir[2]) =>
                   /\ Len(frame.processed) = Len(k_path)
                   /\ {frame.processed[n].pos : n \in 1..Len(frame.processed)} = 1..Len(k_path))
    /\ [][pc = "bse" =>
             \A p \in 1..Len(k_path) :
                 k_path'[p] # k_path[p] =>
                     /\ Len(frame.processed) < Len(FamilyOrder)
                     /\ p = NextInOrder]_vars

\* a 111 segment that comes first on the path has been processed last
C20_Witness ==
    /\ pc = "bse"
    /\ frame.phase = "segment"
    /\ frame.fam = 2
    /\ frame.seg = frame.n_dir[2]
    /\ Len(frame.processed) = 2
    /\ frame.processed[1].pos = 2
    /\ frame.processed[2].pos = 1
    /\ k_path[1].dir = 2

\* the signed directions of the 110 family
Is110(v) == Cardinality({i \in Axes : v[i] = 0}) = 1 /\ EqualMagnitudes(v)

\* the axes rotated by the three branches of rotate_psi
BranchAxes == { << <<0, 1>> >>, << <<0, 2>> >>, << <<0, 1>>, <<0, 2>> >> }

\* C21: for each of the twelve 110 directions rotate_psi takes one of its
\* three rotation branches, and every rotation it applies has a non-zero
\* angle: the field is never handed back unrotated.
C21_RotationBranchTaken ==
    (pc # "rotate" /\ rot_segment.dir = 1) =>
        /\ Is110(rot_segment.dir_k.v)
        /\ [n \in 1..Len(rot_out.rotations) |-> rot_out.rotations[n].axes] \in BranchAxes
        /\ \A n \in 1..Len(rot_out.rotations) : rot_out.rotations[n].angle.sin # 0

\* a 110 direction in the y-z plane: the branch with two rotations
C21_Witness ==
    /\ pc = "rotated"
    /\ rot_segment.dir = 1
    /\ rot_segment.dir_k.v[1] = 0
    /\ rot_segment.r_par_sign = -1
    /\ Len(rot_out.rotations) = 2

\* the signed directions of the 111 family
Is111(v) == Cardinality({i \in Axes : v[i] = 0}) = 0 /\ EqualMagnitudes(v)

\* component i of parallelSign * directionVector
SignedDirection(seg, i) ==
    SRoot(Sgn(seg.r_par_sign * seg.dir_k.v[i]),
          seg.dir_k.v[i] * seg.dir_k.v[i], seg.dir_k.n2)

\* a + b + c = 0 for three signed square roots: the side with one term, x,
\* against the other side, sqrt(x) = sqrt(y) + sqrt(z)
SumIsZero(ts) ==
    LET P == {i \in 1..3 : ts[i].sg > 0}
        N == {i \in 1..3 : ts[i].sg < 0}
    IN  IF P = {} /\ N = {} THEN TRUE
        ELSE IF P = {} \/ N = {} THEN FALSE
        ELSE LET single == IF Cardinality(P) = 1 THEN P ELSE N
                 other == (P \cup N) \ single
                 i1 == CHOOSE i \in other : TRUE
                 x == ts[CHOOSE i \in single : TRUE].sq
                 y == ts[i1].sq
                 z == IF other = {i1} THEN RInt(0)
                      ELSE ts[CHOOSE i \in other : i # i1].sq
                 r == RSub(RSub(x, y), z)
             IN  /\ RSign(r) >= 0
                 /\ RMul(r, r) = RMul(RInt(4), RMul(y, z))

Orthogonal(r, q) == SumIsZero([i \in 1..3 |-> SMul(r[i], q[i])])

\* C22 (as claimed): for every 110 and 111 direction, row 0 of the basis
\* k_path_segment builds is parallelSign * directionVector, component by
\* component, and rows 1 and 2 are orthogonal to it.
C22_RowZeroIsParallel ==
    (rot_segment.dir \in {1, 2}
       /\ (Is110(rot_segment.dir_k.v) \/ Is111(rot_segment.dir_k.v))) =>
        /\ \A i \in Axes : rot_segment.k_perp_basis[1][i] = SignedDirection(rot_segment, i)
        /\ Orthogonal(rot_segment.k_perp_basis[1], rot_segment.k_perp_basis[2])
        /\ Orthogonal(rot_segment.k_perp_basis[1], rot_segment.k_perp_basis[3])

\* what the rows do satisfy: row 0 is parallelSign * directionVector with
\* the first component taken in magnitude, and rows 1 and 2 are orthogonal
\* to it
C22_RowZeroUpToFirstSign ==
    (rot_segment.dir \in {1, 2}
       /\ (Is110(rot_segment.dir_k.v) \/ Is111(rot_segment.dir_k.v))) =>
        /\ \A i \in Axes :
              rot_segment.k_perp_basis[1][i] =
                  IF i = 1 THEN [SignedDirection(rot_segment, 1) EXCEPT !.sg = @ * @]
                  ELSE SignedDirection(rot_segment, i)
        /\ Orthogonal(rot_segment.k_perp_basis[1], rot_segment.k_perp_basis[2])
        /\ Orthogonal(rot_segment.k_perp_basis[1], rot_segment.k_perp_basis[3])

(***************************************************************************)
(* C23.  Family-1 index window.  For a 110 segment and Nyquist limit       *)
(* N >= 0 the work list holds exactly the items (b, l), b in               *)
(* 0..bundleCount-1, l in 0..2N-b, each once; for the item a worker is at, *)
(* set_bundle_110 gives n_kappa = 2N - b - l + 1 >= 1 zones running from   *)
(* (l - 2N)/2 to (2(N - b) - l)/2 in unit steps, and combinations_110_bis  *)
(* gives 2N + 1 - b rows for l = 0 and twice as many for l > 0, the        *)
(* integer grid -N..N-b in the column of the vanishing index component.    *)
(***************************************************************************)
WorkItems110(bundles, N) ==
    {<<b, l>> : b \in 0..(bundles - 1), l \in 0..(2 * N)} \cap
    {it \in (0..(bundles - 1)) \X (0..(2 * N)) : it[2] <= 2 * N - it[1]}

EachOnce(ops, items) ==
    /\ Len(ops) = Cardinality(items)
    /\ {ops[i] : i \in 1..Len(ops)} = items

VanishingAxis(seg) == CHOOSE i \in Axes : seg.indices[i][1] = 0

C23_Family1Window ==
    (pc = "bundles" /\ bun_seg.dir = 1 /\ bun_Nyq >= 0) =>
        /\ EachOnce(bun_ops, WorkItems110(bun_seg.N_bun, bun_Nyq))
        /\ bun_out.status = "ok" =>
             LET b == bun_item[1]
                 l == bun_item[2]
                 N == bun_Nyq
                 z == VanishingAxis(bun_seg)
                 rows == bun_out.rows
             IN  /\ bun_out.n_kappa = 2 * N - b - l + 1
                 /\ bun_out.n_kappa >= 1
                 /\ Len(bun_out.zones) = bun_out.n_kappa
                 /\ bun_out.zones[1] = RNorm(l - 2 * N, 2)
                 /\ bun_out.zones[bun_out.n_kappa] = RNorm(2 * (N - b) - l, 2)
                 /\ \A i \in 1..(bun_out.n_kappa - 1) :
                      RSub(bun_out.zones[i + 1], bun_out.zones[i]) = RInt(1)
                 /\ Len(rows) = (IF l = 0 THEN 1 ELSE 2) * (2 * N + 1 - b)
                 /\ \A r \in 1..Len(rows) :
                      RSub(rows[r][z], Origin(bun_seg, b)[z])
                        = RInt(-N + ((r - 1) % (2 * N + 1 - b)))

C23_Witness ==
    /\ pc = "bundles"
    /\ bun_seg.dir = 1
    /\ bun_Nyq = 2
    /\ bun_out.status = "ok"
    /\ bun_item = <<0, 3>>
    /\ bun_out.n_kappa = 2
    /\ Len(bun_out.rows) = 10

(***************************************************************************)
(* C24.  Family-2 index window.  For a 111 segment and Nyquist limit       *)
(* N >= 0 the work list holds exactly the items (b, w, l), b in            *)
(* 0..bundleCount-1, w in 0..2N-b, l in 0..w, each once; for the item a    *)
(* worker is at, set_bundle_111 gives n_kappa = 2N - b - w + 1 >= 1 zones  *)
(* whose cell indices run from w + l - 3N to 3(N - b) + l - 2w in steps    *)
(* of 3, both ends included.                                               *)
(***************************************************************************)
WorkItems111(bundles, N) ==
    {it \in (0..(bundles - 1)) \X (0..(2 * N)) \X (0..(2 * N)) :
        it[2] <= 2 * N - it[1] /\ it[3] <= it[2]}

C24_Family2Window ==
    (pc = "bundles" /\ bun_seg.dir = 2 /\ bun_Nyq >= 0) =>
        /\ EachOnce(bun_ops, WorkItems111(bun_seg.N_bun, bun_Nyq))
        /\ bun_out.status = "ok" =>
             LET b == bun_item[1]
                 w == bun_item[2]
                 l == bun_item[3]
                 N == bun_Nyq
             IN  /\ bun_out.n_kappa = 2 * N - b - w + 1
                 /\ bun_out.n_kappa >= 1
                 /\ Len(bun_out.zones) = bun_out.n_kappa
                 /\ bun_out.zones[1] = RInt(w + l - 3 * N)
                 /\ bun_out.zones[bun_out.n_kappa] = RInt(3 * (N - b) + l - 2 * w)
                 /\ \A i \in 1..(bun_out.n_kappa - 1) :
                      RSub(bun_out.zones[i + 1], bun_out.zones[i]) = RInt(3)

C24_Witness ==
    /\ pc = "bundles"
    /\ bun_seg.dir = 2
    /\ bun_Nyq = 2
    /\ bun_out.status = "ok"
    /\ bun_item = <<0, 2, 1>>
    /\ bun_out.n_kappa = 3
    /\ bun_out.zones = <<RInt(-3), RInt(0), RInt(3)>>

(***************************************************************************)
(* C25.  Sign flips of combinations_111.  For each of the eight 111        *)
(* directions the signed index vector parallelSign * indices is one of the *)
(* four canonical positive directions (1,1,1), (1,1,-1), (1,-1,1),         *)
(* (1,-1,-1), and the rows are the distinct permutations of (w, l, 0) with *)
(* component j negated exactly when component j of that direction is -1,   *)
(* shifted by the bundle origin.                                           *)
(***************************************************************************)
Canonical111 == {<<1, 1, 1>>, <<1, 1, -1>>, <<1, -1, 1>>, <<1, -1, -1>>}

Permutations3(c) ==
    {<<c[1], c[2], c[3]>>, <<c[1], c[3], c[2]>>, <<c[2], c[1], c[3]>>,
     <<c[2], c[3], c[1]>>, <<c[3], c[1], c[2]>>, <<c[3], c[2], c[1]>>}

C25_SignFlipsCoverSubCases ==
    (pc = "bundles" /\ bun_seg.dir = 2 /\ Is111(bun_seg.dir_k.v)) =>
        /\ \E d \in Canonical111 : SignedIndex(bun_seg) = [i \in Axes |-> RInt(d[i])]
        /\ bun_out.status = "ok" =>
             LET d == CHOOSE c \in Canonical111 :
                        SignedIndex(bun_seg) = [i \in Axes |-> RInt(c[i])]
                 b == bun_item[1]
                 cells == Permutations3(<<bun_item[2], bun_item[3], 0>>)
             IN  /\ bun_out.rows =
                      {[i \in Axes |-> RAdd(RInt(d[i] * c[i]), Origin(bun_seg, b)[i])] :
                          c \in cells}
                 /\ Cardinality(bun_out.rows) = Cardinality(cells)

C25_Witness ==
    /\ pc = "bundles"
    /\ bun_seg.dir = 2
    /\ SignedIndex(bun_seg) = <<RInt(1), RInt(-1), RInt(-1)>>
    /\ bun_seg.r_par_sign = -1
    /\ bun_out.status = "ok"
    /\ bun_item = <<0, 2, 1>>
    /\ <<RInt(2), RInt(-1), RInt(0)>> \in bun_out.rows
    /\ Cardinality(bun_out.rows) = 6

(***************************************************************************)
(* C26 (as claimed).  Only the parallel ramp carries the sign: the ramps   *)
(* r_perp_0 and r_perp_1 returned with the rotated field are the unsigned  *)
(* ramps 0, 1, ..., n-1 and r_par is that ramp times parallelSign, for     *)
(* every family and either sign.                                           *)
(***************************************************************************)
C26_OnlyParallelRampSigned ==
    pc \in {"rotated", "contracted", "raised"} =>
        /\ rot_out.r_par = Ramp(Len(rot_out.r_par), rot_segment.r_par_sign)
        /\ rot_out.r_perp_0 = Ramp(Len(rot_out.r_perp_0), 1)
        /\ rot_out.r_perp_1 = Ramp(Len(rot_out.r_perp_1), 1)

\* C26 for the families whose ramps are rebuilt after the rotation, and for
\* the 100 family with parallelSign +1
C26_OnlyParallelRampSignedUnlessShared ==
    (pc \in {"rotated", "contracted", "raised"}
        /\ (rot_segment.dir # 0 \/ rot_segment.r_par_sign = 1)) =>
        /\ rot_out.r_par = Ramp(Len(rot_out.r_par), rot_segment.r_par_sign)
        /\ rot_out.r_perp_0 = Ramp(Len(rot_out.r_perp_0), 1)
        /\ rot_out.r_perp_1 = Ramp(Len(rot_out.r_perp_1), 1)

(***************************************************************************)
(* C30.  Masks agree with the axis assignment for 100 segments.  For each  *)
(* of the six 100 directions axis_id returned by rotate_psi is a           *)
(* permutation of (0,1,2) whose first entry is the axis of the direction's *)
(* non-zero component, the field is returned with no rotation applied, and *)
(* get_masks returns unit masks of which mask_1 selects axis axis_id[1]    *)
(* and mask_2 selects axis axis_id[2].                                     *)
(***************************************************************************)
\* mask is the unit vector of axis a (numbered from 0)
Selects(mask, a) ==
    \A j \in Axes : mask[j] = IF j = a + 1 THEN SRoot(1, 1, 1) ELSE SRoot(0, 0, 1)

C30_MasksAgreeWithAxisId ==
    (pc \in {"rotated", "contracted", "raised"} /\ rot_segment.dir = 0) =>
        LET axis_id == rot_out.axis_id
            masks == get_masks(rot_segment.dir, rot_segment.indices)
        IN  /\ {axis_id[i] : i \in 1..3} = {0, 1, 2}
            /\ rot_segment.dir_k.v[axis_id[1] + 1] # 0
            /\ \A j \in Axes : j # axis_id[1] + 1 => rot_segment.dir_k.v[j] = 0
            /\ rot_out.rotations = <<>>
            /\ rot_out.shape = psi_shape
            /\ Selects(masks[1], axis_id[2])
            /\ Selects(masks[2], axis_id[3])

C30_Witness ==
    /\ pc = "rotated"
    /\ rot_segment.dir = 0
    /\ rot_segment.dir_k.v[3] < 0
    /\ rot_out.axis_id = <<2, 1, 0>>
    /\ Selects(get_masks(rot_segment.dir, rot_segment.indices)[1], 1)
    /\ Selects(get_masks(rot_segment.dir, rot_segment.indices)[2], 0)
    /\ psi_shape = <<1, 2, 3>>

(***************************************************************************)
(* C28.  Chunk count versus pool size.  For a segment with N >= 1 work     *)
(* items and n_cores >= 1 the pool has min(n_cores, N) workers and the     *)
(* number of chunks dispatched to it is at least the pool size and at most *)
(* 2 * min(n_cores, N) - 1.                                                *)
(***************************************************************************)
PoolBounds(chunks, workers) ==
    LET N == ChunkOffset(chunks, Len(chunks) + 1)
    IN  /\ N >= 1
        /\ n_cores >= 1
        /\ workers = Min2(n_cores, N)
        /\ Len(chunks) >= workers
        /\ Len(chunks) <= 2 * workers - 1

C28_ChunkCountVersusPool ==
    /\ (pc = "bse" /\ frame.phase = "parallel") =>
          PoolBounds(frame.chunks, frame.cores_to_use)
    /\ \A n \in 1..Len(frame.processed) :
          frame.processed[n].parallel =>
              PoolBounds(frame.processed[n].chunks, frame.processed[n].n_jobs)

C28_Witness ==
    /\ pc = "bse"
    /\ frame.phase = "parallel"
    /\ frame.cores_to_use = 2
    /\ Len(frame.chunks) = 3
    /\ ChunkOffset(frame.chunks, 4) = 5

(***************************************************************************)
(* C27 (as claimed).  The work list is never empty: for every segment and  *)
(* every Nyquist limit summary_k_path can return, negative ones included,  *)
(* the work list is non-empty and cores_to_use >= 1, so the chunk size     *)
(* num_items // cores_to_use never divides by zero and no error is raised. *)
(***************************************************************************)
C27_WorkListNeverEmpty ==
    pc # "enumerate" =>
        /\ Len(bun_ops) >= 1
        /\ Min2(n_cores, Len(bun_ops)) >= 1
        /\ exc = "none"

\* C27 for the Nyquist limits that are not negative
C27_WorkListNotEmptyFromZero ==
    (pc # "enumerate" /\ bun_Nyq >= 0) =>
        /\ Len(bun_ops) >= 1
        /\ Min2(n_cores, Len(bun_ops)) >= 1
        /\ exc = "none"

(***************************************************************************)
(* C29.  Earlier results are not overwritten.  The row bse returns for a   *)
(* field shares no storage with the segments' phi_folded arrays, so the    *)
(* rows already collected in bse_folded_states keep their values in every  *)
(* step, the steps in which a later field zeroes and rewrites the segments *)
(* included.                                                               *)
(***************************************************************************)
RowsKept ==
    /\ Len(bse_folded_states') >= Len(bse_folded_states)
    /\ \A j \in 1..Len(bse_folded_states) :
          bse_folded_states'[j] = bse_folded_states[j]

C29_CollectedRowsKept ==
    [][/\ (pc \in {"bse", "bse_cube"}) => RowsKept
       /\ frame'.views = {}]_vars

\* a row is collected and a later field has rewritten a segment to other
\* values than the row holds for it
C29_Witness ==
    /\ pc = "bse"
    /\ Len(bse_folded_states) >= 1
    /\ frame.seg >= 1
    /\ \E n \in 1..Len(k_path[1].phi_folded) :
          k_path[1].phi_folded[n] # bse_folded_states[1][n]

====
